---------------------------- MODULE Spec2Model ----------------------------
(***************************************************************************)
(* Model of the catalogue engines of super_dev.design:                     *)
(*   LandingPatternGenerator (landing.py), UXGuideEngine (ux_guide.py),    *)
(*   TechStackEngine (tech_stack.py) and CodeGenerator (codegen.py).       *)
(*                                                                         *)
(* One behaviour constructs one engine over a data directory (the input    *)
(* file absent, or present with some rows) and then issues query calls.    *)
(* Python strings are TLA+ strings; Optional[str] is a sequence of at most *)
(* one string (<<>> is None); a list is a sequence; a call's outcome is a  *)
(* record [exc, value] whose exc names the exception that escaped ("" when *)
(* the call returned).                                                     *)
(***************************************************************************)
EXTENDS Integers, Sequences, FiniteSets, TLC

VARIABLES
    engine,            \* the class that was instantiated, "none" before
    status,            \* "unbuilt", "ready", or "failed" (constructor raised)
    csv,               \* the input files handed to the constructor
    patterns,          \* LandingPatternGenerator.patterns
    guidelines,        \* UXGuideEngine.guidelines
    practices,         \* TechStackEngine.practices
    tech_patterns,     \* TechStackEngine.patterns
    performance_tips,  \* TechStackEngine.performance_tips
    snippets,          \* CodeGenerator.snippets
    call,              \* the last query call: its name and arguments
    ret                \* its outcome

vars == <<engine, status, csv, patterns, guidelines, practices, tech_patterns,
          performance_tips, snippets, call, ret>>

stores == <<patterns, guidelines, practices, tech_patterns, performance_tips, snippets>>

---------------------------------------------------------------------------
(* Bounds of the model.                                                    *)

\* the longest input file, in rows
MaxRows == 2

\* the largest max_results argument
MaxCap == 3

---------------------------------------------------------------------------
(* Python values.                                                          *)

None == <<>>

Some(v) == <<v>>

\* truth value of an Optional[str]: None and "" are falsy
Truthy(o) == o # <<>> /\ o[1] # ""

Returned(v) == [exc |-> "", value |-> v]

Raised(e) == [exc |-> e, value |-> <<>>]

\* the file does not exist
Absent == [exists |-> FALSE, rows |-> <<>>]

File(rows) == [exists |-> TRUE, rows |-> rows]

\* seq[:n]: the first n items, or all but the last -n when n is negative
Slice(seq, n) ==
    IF n >= 0 THEN SubSeq(seq, 1, IF n < Len(seq) THEN n ELSE Len(seq))
    ELSE SubSeq(seq, 1, Len(seq) + n)

Range(seq) == {seq[i] : i \in 1..Len(seq)}

\* all sequences over S of length at most n
RECURSIVE SeqsUpTo(_, _)
SeqsUpTo(S, n) ==
    IF n = 0 THEN {<<>>}
    ELSE LET shorter == SeqsUpTo(S, n - 1)
         IN shorter \cup {Append(s, x) : s \in {t \in shorter : Len(t) = n - 1}, x \in S}

\* a row loop that gives up at the first row that does not parse
RECURSIVE ParseRows_stop_at_bad(_)
ParseRows_stop_at_bad(parsed) ==
    IF Len(parsed) = 0 THEN <<>>
    ELSE IF parsed[1] = <<>> THEN <<>>
    ELSE parsed[1] \o ParseRows_stop_at_bad(Tail(parsed))

\* a loader's loop over the rows: the rows that parse, in file order
RECURSIVE Flatten(_)
Flatten(lists) ==
    IF Len(lists) = 0 THEN <<>>
    ELSE Flatten(SubSeq(lists, 1, Len(lists) - 1)) \o lists[Len(lists)]

\* the records appended in the row loop, given each row's parse result
ParseRows(parsed) == Flatten(parsed)

\* row.get(key, default)
RowGet(row, key, default) == IF key \in DOMAIN row THEN row[key] ELSE default

---------------------------------------------------------------------------
(* Python str operations.                                                  *)

UpperLetters == "ABCDEFGHIJKLMNOPQRSTUVWXYZ"

LowerLetters == "abcdefghijklmnopqrstuvwxyz"

\* the lower-case letter of each upper-case letter, and the converse
ToLower == [c \in {SubSeq(UpperLetters, i, i) : i \in 1..Len(UpperLetters)} |->
               LET i == CHOOSE i \in 1..Len(UpperLetters) : SubSeq(UpperLetters, i, i) = c
               IN SubSeq(LowerLetters, i, i)]

ToUpper == [c \in {SubSeq(LowerLetters, i, i) : i \in 1..Len(LowerLetters)} |->
               LET i == CHOOSE i \in 1..Len(LowerLetters) : SubSeq(LowerLetters, i, i) = c
               IN SubSeq(UpperLetters, i, i)]

LowerChar(c) == IF c \in DOMAIN ToLower THEN ToLower[c] ELSE c

UpperChar(c) == IF c \in DOMAIN ToUpper THEN ToUpper[c] ELSE c

IsLetter(c) == c \in DOMAIN ToLower \/ c \in DOMAIN ToUpper

\* s.lower()
RECURSIVE lower(_)
lower(s) ==
    IF Len(s) = 0 THEN ""
    ELSE LowerChar(SubSeq(s, 1, 1)) \o lower(SubSeq(s, 2, Len(s)))

\* q in s
In(q, s) == \E i \in 0..(Len(s) - Len(q)) : SubSeq(s, i + 1, i + Len(q)) = q

\* s.split(sep) for a one-character separator: always at least one piece
RECURSIVE split(_, _)
split(s, sep) ==
    IF ~In(sep, s) THEN <<s>>
    ELSE LET i == CHOOSE i \in 1..Len(s) :
                      /\ SubSeq(s, i, i) = sep
                      /\ \A j \in 1..(i - 1) : SubSeq(s, j, j) # sep
         IN <<SubSeq(s, 1, i - 1)>> \o split(SubSeq(s, i + 1, Len(s)), sep)

\* s.strip(): the blank is the only whitespace of the model's strings
RECURSIVE strip(_)
strip(s) ==
    IF Len(s) = 0 THEN s
    ELSE IF SubSeq(s, 1, 1) = " " THEN strip(SubSeq(s, 2, Len(s)))
    ELSE IF SubSeq(s, Len(s), Len(s)) = " " THEN strip(SubSeq(s, 1, Len(s) - 1))
    ELSE s

\* s.split(): pieces between runs of whitespace, none of them empty
split_ws(s) ==
    LET pieces == split(s, " ")
    IN SelectSeq(pieces, LAMBDA p : p # "")

\* s.replace(old, new) for a one-character old
RECURSIVE replace(_, _, _)
replace(s, old, new) ==
    IF Len(s) = 0 THEN ""
    ELSE (IF SubSeq(s, 1, 1) = old THEN new ELSE SubSeq(s, 1, 1))
         \o replace(SubSeq(s, 2, Len(s)), old, new)

\* s.title(): a letter after a non-letter is upper-cased, other letters lower-cased
RECURSIVE titleFrom(_, _)
titleFrom(s, afterLetter) ==
    IF Len(s) = 0 THEN ""
    ELSE LET c == SubSeq(s, 1, 1)
         IN (IF afterLetter THEN LowerChar(c) ELSE UpperChar(c))
            \o titleFrom(SubSeq(s, 2, Len(s)), IsLetter(c))

title(s) == titleFrom(s, FALSE)

\* list.sort(key=score, reverse=True) over <<item, score>> pairs: a stable sort,
\* equal scores keep their order
RECURSIVE SortDesc(_)
SortDesc(scored) ==
    IF Len(scored) = 0 THEN <<>>
    ELSE LET init == SortDesc(SubSeq(scored, 1, Len(scored) - 1))
             x == scored[Len(scored)]
             k == Cardinality({i \in 1..Len(init) : init[i][2] >= x[2]})
         IN SubSeq(init, 1, k) \o <<x>> \o SubSeq(init, k + 1, Len(init))

\* list.sort(key=...) over <<item, key>> pairs: a stable ascending sort
RECURSIVE SortAsc(_)
SortAsc(keyed) ==
    IF Len(keyed) = 0 THEN <<>>
    ELSE LET init == SortAsc(SubSeq(keyed, 1, Len(keyed) - 1))
             x == keyed[Len(keyed)]
             k == Cardinality({i \in 1..Len(init) : init[i][2] <= x[2]})
         IN SubSeq(init, 1, k) \o <<x>> \o SubSeq(init, k + 1, Len(init))

Items(scored) == [i \in 1..Len(scored) |-> scored[i][1]]

IsNonIncreasing(nums) == \A i \in 1..(Len(nums) - 1) : nums[i] >= nums[i + 1]

---------------------------------------------------------------------------
(* landing.py: records and loading.                                        *)

\* the values of enum LandingCategory
LandingCategory ==
    {"classic", "video", "pricing", "product", "social", "comparison", "faq",
     "layout", "minimal", "conversion", "interactive", "narrative", "data",
     "trust", "theme"}

LandingSection(name, type, content_hint, required, order) ==
    [name |-> name, type |-> type, content_hint |-> content_hint,
     required |-> required, order |-> order]

\* type_map of _infer_section_type, in dictionary order
type_map ==
    << <<"hero", <<"hero", "video_hero", "split_hero", "dark_hero", "single_cta">> >>,
       <<"features", <<"features", "zigzag_features", "dark_features", "feature">> >>,
       <<"pricing", <<"pricing_plans", "pricing", "plans">> >>,
       <<"testimonials", <<"testimonials", "social_proof", "reviews">> >>,
       <<"comparison", <<"comparison_table", "comparison">> >>,
       <<"faq", <<"faq", "faq_categories", "questions">> >>,
       <<"demo", <<"interactive_demo", "video_hero", "product_gallery">> >>,
       <<"stats", <<"stats_dashboard", "trust_badges", "stats">> >>,
       <<"cta", <<"cta", "contact_cta", "repeating_ctas">> >>,
       <<"story", <<"story_sections", "timeline", "narrative">> >> >>

\* the first type one of whose patterns occurs in the lower-cased name
infer_section_type(name) ==
    LET name_lower == lower(name)
        hits == {i \in 1..Len(type_map) :
                    \E j \in 1..Len(type_map[i][2]) : In(type_map[i][2][j], name_lower)}
    IN IF hits = {} THEN "content"
       ELSE type_map[CHOOSE i \in hits : \A k \in hits : i <= k][1]

get_content_hint(section_type) ==
    CASE section_type = "hero" -> "Compelling headline, subheadline, primary CTA, hero image/video"
      [] section_type = "features" -> "3-6 key features with icons, titles, descriptions"
      [] section_type = "pricing" -> "2-4 pricing tiers, highlight recommended plan"
      [] section_type = "testimonials" -> "3-5 customer quotes with photos and titles"
      [] section_type = "comparison" -> "Side-by-side feature comparison table"
      [] section_type = "faq" -> "5-10 common questions with clear answers"
      [] section_type = "demo" -> "Interactive or video demonstration"
      [] section_type = "stats" -> "Key metrics, social proof numbers"
      [] section_type = "cta" -> "Clear call-to-action with benefit statement"
      [] section_type = "content" -> "Relevant content for this section"
      [] OTHER -> "Content for this section"

\* base_ctas of _get_cta_variations, in dictionary order
base_ctas ==
    << <<"SaaS", <<"Start Free Trial", "Get Started", "Request Demo", "Start Now">> >>,
       <<"E-commerce", <<"Shop Now", "Browse Collection", "Add to Cart", "Buy Now">> >>,
       <<"Marketing", <<"Learn More", "Get Started", "Contact Us", "Sign Up">> >>,
       <<"B2B", <<"Request Demo", "Contact Sales", "Enterprise Plans", "Book a Call">> >>,
       <<"Freemium", <<"Start Free", "Upgrade Now", "Get Pro", "Unlock Features">> >>,
       <<"Mobile", <<"Download App", "Get on iOS", "Get on Android", "Install Now">> >>,
       <<"Default", <<"Get Started", "Learn More", "Contact Us", "Sign Up">> >> >>

get_cta_variations(best_for) ==
    LET hits == {i \in 1..Len(base_ctas) : In(lower(base_ctas[i][1]), lower(best_for))}
    IN IF hits = {} THEN base_ctas[Len(base_ctas)][2]
       ELSE base_ctas[CHOOSE i \in hits : \A k \in hits : i <= k][2]

\* _parse_pattern: Some(pattern), or None when the row raised (a missing
\* "name" or "description" column, a category outside the enum)
parse_pattern(row) ==
    LET section_names == LET raw == split(RowGet(row, "sections", ""), ",")
                         IN [i \in 1..Len(raw) |-> strip(raw[i])]
        sections == [i \in 1..Len(section_names) |->
                        LET section_type == infer_section_type(section_names[i])
                        IN LandingSection(title(replace(section_names[i], "_", " ")),
                                          section_type,
                                          get_content_hint(section_type),
                                          i = 1,
                                          i - 1)]
        cta_strategy == [primary_placement |->
                             IF Len(section_names) > 0 THEN section_names[1] ELSE "hero",
                         secondary_placements |-> <<>>,
                         style |-> "button",
                         urgency |-> "medium",
                         text_variations |-> get_cta_variations(RowGet(row, "best_for", ""))]
    IN IF \/ "name" \notin DOMAIN row
          \/ "description" \notin DOMAIN row
          \/ RowGet(row, "category", "classic") \notin LandingCategory
       THEN None
       ELSE Some([name |-> row["name"],
                  category |-> RowGet(row, "category", "classic"),
                  description |-> row["description"],
                  sections |-> sections,
                  cta_strategy |-> cta_strategy,
                  best_for |-> split(RowGet(row, "best_for", ""), ","),
                  conversion_tips |->
                      IF RowGet(row, "conversion_tips", "") # ""
                      THEN split(row["conversion_tips"], ",") ELSE <<>>,
                  complexity |-> RowGet(row, "complexity", "medium"),
                  keywords |->
                      IF RowGet(row, "keywords", "") # ""
                      THEN split(row["keywords"], ",") ELSE <<>>])

Landing_get_default_patterns ==
    << [name |-> "Hero + Features",
        category |-> "classic",
        description |-> "Classic landing page with hero section and feature showcase",
        sections |->
            << LandingSection("Hero", "hero", "Compelling headline and primary CTA", TRUE, 0),
               LandingSection("Features", "features", "3-6 key features with icons", FALSE, 1),
               LandingSection("Social Proof", "testimonials", "Customer testimonials", FALSE, 2),
               LandingSection("CTA", "cta", "Final call-to-action", FALSE, 3) >>,
        cta_strategy |->
            [primary_placement |-> "hero",
             secondary_placements |-> <<"features", "cta">>,
             style |-> "button",
             urgency |-> "medium",
             text_variations |-> <<"Get Started", "Learn More", "Start Free Trial">>],
        best_for |-> <<"SaaS", "Marketing", "Product">>,
        conversion_tips |->
            <<"Place primary CTA in hero section", "Use contrasting color for CTA">>,
        complexity |-> "medium",
        keywords |-> <<"hero", "features", "classic", "landing">>],
       [name |-> "Minimal Single CTA",
        category |-> "minimal",
        description |-> "Ultra-minimalist page with single focused action",
        sections |->
            << LandingSection("Single CTA", "hero", "One clear headline and one button", TRUE, 0) >>,
        cta_strategy |->
            [primary_placement |-> "hero",
             secondary_placements |-> <<>>,
             style |-> "button",
             urgency |-> "high",
             text_variations |-> <<"Sign Up", "Get Started", "Join Now">>],
        best_for |-> <<"Newsletter", "Signup", "Waitlist">>,
        conversion_tips |-> <<"Remove all distractions", "Use plenty of whitespace">>,
        complexity |-> "low",
        keywords |-> <<"minimal", "simple", "focused", "single">>] >>

\* mutant: the built-in patterns are not used when the file is absent
Landing_load_patterns_no_fallback(file) == ParseRows([i \in 1..Len(file.rows) |-> parse_pattern(file.rows[i])])

\* _load_patterns: the store after construction over the file
Landing_load_patterns(file) ==
    IF ~file.exists THEN Landing_get_default_patterns
    ELSE ParseRows([i \in 1..Len(file.rows) |-> parse_pattern(file.rows[i])])

---------------------------------------------------------------------------
(* landing.py: search.                                                     *)

\* how many items of the list contain the query
Matches(query_lower, list) ==
    Cardinality({i \in 1..Len(list) : In(query_lower, lower(list[i]))})

\* mutant: a list field counts once however many of its elements match
Landing_score_once_per_list(pattern, query_lower) ==
    (IF In(query_lower, lower(pattern.name)) THEN 10 ELSE 0)
    + (IF In(query_lower, pattern.category) THEN 5 ELSE 0)
    + (IF Matches(query_lower, pattern.keywords) > 0 THEN 3 ELSE 0)
    + (IF Matches(query_lower, pattern.best_for) > 0 THEN 2 ELSE 0)

\* the score the loop of search accumulates for one pattern
Landing_score(pattern, query_lower) ==
    (IF In(query_lower, lower(pattern.name)) THEN 10 ELSE 0)
    + (IF In(query_lower, pattern.category) THEN 5 ELSE 0)
    + 3 * Matches(query_lower, pattern.keywords)
    + 2 * Matches(query_lower, pattern.best_for)

\* scored_patterns before the sort: the patterns with score > 0, in store order
Landing_scored(store, query_lower) ==
    LET all == [i \in 1..Len(store) |-> <<store[i], Landing_score(store[i], query_lower)>>]
    IN SelectSeq(all, LAMBDA x : x[2] > 0)

\* mutant: the sort is left out
Landing_ranked_unsorted(store, query_lower) == Landing_scored(store, query_lower)

\* mutant: the sort is ascending (reverse=True is left out)
Landing_ranked_ascending(store, query_lower) == SortAsc(Landing_scored(store, query_lower))

\* mutant: the sort puts equal scores in the reverse of their store order
Landing_ranked_ties_reversed(store, query_lower) ==
    LET ascending == SortAsc(Landing_scored(store, query_lower))
    IN [i \in 1..Len(ascending) |-> ascending[Len(ascending) + 1 - i]]

\* scored_patterns.sort(key=lambda x: x[1], reverse=True)
Landing_ranked(store, query_lower) == SortDesc(Landing_scored(store, query_lower))

\* mutant: the list is cut to max_results before it is sorted
Landing_search_cut_first(store, query, max_results) ==
    Returned(Items(SortDesc(Slice(Landing_scored(store, lower(query)), max_results))))

\* LandingPatternGenerator.search
Landing_search(store, query, max_results) ==
    Returned(Items(Slice(Landing_ranked(store, lower(query)), max_results)))

\* mutant: the first pattern of the store stands in for a name not found
Landing_get_pattern_or_first(store, name) ==
    LET found == SelectSeq(store, LAMBDA p : lower(p.name) = lower(name))
    IN IF Len(found) > 0 THEN Some(found[1])
       ELSE IF Len(store) > 0 THEN Some(store[1]) ELSE None

\* LandingPatternGenerator.get_pattern: the first pattern of that name,
\* compared lower-cased, or None
Landing_get_pattern(store, name) ==
    LET found == SelectSeq(store, LAMBDA p : lower(p.name) = lower(name))
    IN IF Len(found) > 0 THEN Some(found[1]) ELSE None

\* `a or b` over Optional[LandingPattern]: a pattern object is truthy
OrElse(a, b) == IF a # None THEN a ELSE b

\* mutant: the signup branch has no `or self.get_pattern("Hero + Features")`
Landing_recommend_no_fallback(store, product_type, goal, audience) ==
    IF lower(goal) \in {"signup", "register", "newsletter"}
    THEN Landing_get_pattern(store, "Minimal Single CTA")
    ELSE Landing_get_pattern(store, "Hero + Features")

\* LandingPatternGenerator.recommend: `x in [...]` on a list of words is
\* equality with one of them; only "pricing" is looked for inside the goal
Landing_recommend(store, product_type, goal, audience) ==
    LET goal_lower == lower(goal)
        product_lower == lower(product_type)
    IN IF goal_lower \in {"signup", "register", "newsletter"}
       THEN OrElse(Landing_get_pattern(store, "Minimal Single CTA"),
                   Landing_get_pattern(store, "Hero + Features"))
       ELSE IF goal_lower \in {"purchase", "buy", "order"}
       THEN OrElse(Landing_get_pattern(store, "Product Showcase"),
                   Landing_get_pattern(store, "Hero + Features"))
       ELSE IF goal_lower \in {"demo", "trial"}
       THEN OrElse(Landing_get_pattern(store, "Interactive Demo"),
                   Landing_get_pattern(store, "Video-First"))
       ELSE IF In("pricing", goal_lower)
       THEN Landing_get_pattern(store, "Pricing Preview")
       ELSE IF product_lower \in {"b2b", "enterprise", "saas"}
       THEN OrElse(Landing_get_pattern(store, "Comparison Table"),
                   Landing_get_pattern(store, "Trust Badges"))
       ELSE Landing_get_pattern(store, "Hero + Features")

\* mutant: search sorts self.patterns itself by score
Landing_search_sorting_store(store, query) ==
    Items(SortDesc([i \in 1..Len(store) |-> <<store[i], Landing_score(store[i], lower(query))>>]))

\* self.patterns after search: the list that search appends to and sorts is
\* scored_patterns, a new list; self.patterns is only iterated
Landing_patterns_after_search(store, query) == store

\* mutant: the sections come last-first and the texts are not cut
Landing_generate_structure_reversed(pattern) ==
    [pattern |-> pattern.name,
     description |-> pattern.description,
     sections |-> [i \in 1..Len(pattern.sections) |->
                      LET section == pattern.sections[Len(pattern.sections) + 1 - i]
                      IN [name |-> section.name, type |-> section.type,
                          content_hint |-> section.content_hint, order |-> section.order]],
     cta_strategy |->
         [primary |-> [placement |-> pattern.cta_strategy.primary_placement,
                       style |-> pattern.cta_strategy.style,
                       texts |-> pattern.cta_strategy.text_variations],
          secondary |-> <<>>],
     conversion_tips |-> pattern.conversion_tips,
     complexity |-> pattern.complexity]

\* LandingPatternGenerator.generate_structure
Landing_generate_structure(pattern) ==
    [pattern |-> pattern.name,
     description |-> pattern.description,
     sections |-> [i \in 1..Len(pattern.sections) |->
                      [name |-> pattern.sections[i].name,
                       type |-> pattern.sections[i].type,
                       content_hint |-> pattern.sections[i].content_hint,
                       order |-> pattern.sections[i].order]],
     cta_strategy |->
         [primary |-> [placement |-> pattern.cta_strategy.primary_placement,
                       style |-> pattern.cta_strategy.style,
                       texts |-> Slice(pattern.cta_strategy.text_variations, 3)],
          secondary |-> [i \in 1..Len(pattern.cta_strategy.secondary_placements) |->
                            [placement |-> pattern.cta_strategy.secondary_placements[i],
                             style |-> pattern.cta_strategy.style]]],
     conversion_tips |-> pattern.conversion_tips,
     complexity |-> pattern.complexity]

\* LandingPatternGenerator.list_patterns
Landing_list_patterns(store) == [i \in 1..Len(store) |-> store[i].name]

\* the set list_categories builds; list(set(...)) returns it in some order
Landing_list_categories(store) == {store[i].category : i \in 1..Len(store)}

---------------------------------------------------------------------------
(* ux_guide.py.                                                            *)

\* enum UXDomain: member name |-> value
UXDomain ==
    [ANIMATION |-> "Animation", A11Y |-> "A11y", PERFORMANCE |-> "Performance",
     RESPONSIVE |-> "Responsive", FORMS |-> "Forms", NAVIGATION |-> "Navigation",
     LOADING |-> "Loading", ERROR |-> "Error", DARK_MODE |-> "Dark Mode",
     I18N |-> "I18n"]

\* the values of an enum: Enum(value) succeeds exactly on these
EnumValues(enum) == {enum[member] : member \in DOMAIN enum}

\* Enum.member: the attribute lookup raises when the class has no such member
EnumAttr(enum, member) ==
    IF member \in DOMAIN enum THEN Returned(enum[member]) ELSE Raised("AttributeError")

UXColumns == {"domain", "topic", "best_practice", "anti_pattern", "example", "impact",
              "complexity"}

\* the body of the try block of _load_guidelines: Some(guideline), or None
\* when the row raised (a missing column, a domain outside the enum)
UX_parse_guideline(row) ==
    IF UXColumns \subseteq DOMAIN row /\ row["domain"] \in EnumValues(UXDomain)
    THEN Some([domain |-> row["domain"], topic |-> row["topic"],
               best_practice |-> row["best_practice"],
               anti_pattern |-> row["anti_pattern"], example |-> row["example"],
               impact |-> row["impact"], complexity |-> row["complexity"]])
    ELSE None

UX_get_default_guidelines ==
    << [domain |-> UXDomain.ANIMATION, topic |-> "Loading",
        best_practice |-> "Use skeleton screens for content loading",
        anti_pattern |-> "Use spinners for all loading states",
        example |-> "Skeleton while profile data loads",
        impact |-> "Reduced perceived wait time", complexity |-> "medium"],
       [domain |-> UXDomain.A11Y, topic |-> "Color",
        best_practice |-> "Use 4.5:1 contrast ratio for text",
        anti_pattern |-> "Light gray text on white background",
        example |-> "Dark text on light background",
        impact |-> "Readable by all users", complexity |-> "low"],
       [domain |-> UXDomain.PERFORMANCE, topic |-> "Images",
        best_practice |-> "Use WebP format with fallbacks",
        anti_pattern |-> "Unoptimized 5MB PNGs",
        example |-> "WebP with JPEG fallback",
        impact |-> "Faster page load", complexity |-> "low"] >>

\* mutant: a file from which nothing was loaded is treated like an absent one
UX_load_guidelines_defaults_when_empty(file) ==
    LET loaded == ParseRows([i \in 1..Len(file.rows) |-> UX_parse_guideline(file.rows[i])])
    IN IF ~file.exists \/ loaded = <<>> THEN UX_get_default_guidelines ELSE loaded

\* _load_guidelines: the store after construction over the file
UX_load_guidelines(file) ==
    IF ~file.exists THEN UX_get_default_guidelines
    ELSE ParseRows([i \in 1..Len(file.rows) |-> UX_parse_guideline(file.rows[i])])

\* _determine_priority: the first comparison reads UXDomain.A11y
UX_determine_priority(guideline) ==
    LET a11y == EnumAttr(UXDomain, "A11y")
    IN IF a11y.exc # "" THEN Raised(a11y.exc)
       ELSE IF guideline.domain = a11y.value THEN Returned("critical")
       ELSE IF guideline.domain = UXDomain.PERFORMANCE THEN Returned("high")
       ELSE IF guideline.complexity = "low" THEN Returned("high")
       ELSE Returned("medium")

AnyIn(words, text) == \E i \in 1..Len(words) : In(words[i], text)

\* mutant: the medium keywords are looked for before the high keywords
UX_determine_user_impact_medium_first(guideline) ==
    LET impact_lower == lower(guideline.impact)
    IN IF AnyIn(<<"some users", "improved", "better">>, impact_lower)
       THEN "medium"
       ELSE IF AnyIn(<<"all users", "everyone", "critical", "essential">>, impact_lower)
       THEN "high"
       ELSE "low"

\* _determine_user_impact
UX_determine_user_impact(guideline) ==
    LET impact_lower == lower(guideline.impact)
    IN IF AnyIn(<<"all users", "everyone", "critical", "essential">>, impact_lower)
       THEN "high"
       ELSE IF AnyIn(<<"some users", "improved", "better">>, impact_lower)
       THEN "medium"
       ELSE "low"

\* mutant: the table is not keyed: every domain gets its first entry
UX_get_resources_first_entry(guideline) ==
    <<"WCAG 2.1 Guidelines: https://www.w3.org/WAI/WCAG21/quickref/",
      "WebAIM Contrast Checker: https://webaim.org/resources/contrastchecker/">>

\* _get_resources: domain_resources.get(guideline.domain, [])
UX_get_resources(guideline) ==
    CASE guideline.domain = UXDomain.A11Y ->
            <<"WCAG 2.1 Guidelines: https://www.w3.org/WAI/WCAG21/quickref/",
              "WebAIM Contrast Checker: https://webaim.org/resources/contrastchecker/">>
      [] guideline.domain = UXDomain.PERFORMANCE ->
            <<"Web.dev Performance: https://web.dev/performance/",
              "Google Lighthouse: https://developers.google.com/web/tools/lighthouse">>
      [] guideline.domain = UXDomain.RESPONSIVE ->
            <<"MDN Responsive Design: https://developer.mozilla.org/en-US/docs/Learn/CSS/CSS_layout/Responsive_Design">>
      [] guideline.domain = UXDomain.ANIMATION ->
            <<"Motion Design Guidelines: https://material.io/design/motion">>
      [] OTHER -> <<>>

UXRecommendation(guideline, priority, implementation_effort, user_impact, resources) ==
    [guideline |-> guideline, priority |-> priority,
     implementation_effort |-> implementation_effort, user_impact |-> user_impact,
     resources |-> resources]

\* the score the loop of search accumulates for one guideline
UX_score(guideline, query_lower) ==
    LET words == split_ws(query_lower)
        impact_lower == lower(guideline.impact)
    IN (IF In(query_lower, lower(guideline.topic)) THEN 10 ELSE 0)
       + (IF In(query_lower, lower(guideline.best_practice)) THEN 8 ELSE 0)
       + (IF In(query_lower, lower(guideline.anti_pattern)) THEN 8 ELSE 0)
       + 3 * Cardinality({i \in 1..Len(words) : In(words[i], impact_lower)})

\* the domain filter of search: the guideline is scored unless a domain was
\* given and differs
UX_passes(guideline, domain) ==
    ~(Truthy(domain) /\ lower(guideline.domain) # lower(domain[1]))

\* the guidelines search scores above 0, in store order, each with its score
UX_scored(store, query_lower, domain) ==
    LET all == [i \in 1..Len(store) |-> <<store[i], UX_score(store[i], query_lower)>>]
    IN SelectSeq(all, LAMBDA x : UX_passes(x[1], domain) /\ x[2] > 0)

\* scored_guidelines.sort(key=lambda x: x[1], reverse=True)
UX_ranked(store, query_lower, domain) == SortDesc(UX_scored(store, query_lower, domain))

\* UXGuideEngine.search: the priority of every scored guideline is determined
\* inside the scoring loop, so an exception there escapes before the sort
UX_search(store, query, domain, max_results) ==
    LET scored == UX_scored(store, lower(query), domain)
        failing == {i \in 1..Len(scored) : UX_determine_priority(scored[i][1]).exc # ""}
        top == Slice(UX_ranked(store, lower(query), domain), max_results)
    IN IF failing # {}
       THEN Raised(UX_determine_priority(scored[CHOOSE i \in failing : TRUE][1]).exc)
       ELSE Returned([i \in 1..Len(top) |->
                         UXRecommendation(top[i][1],
                                          UX_determine_priority(top[i][1]).value,
                                          top[i][1].complexity,
                                          UX_determine_user_impact(top[i][1]),
                                          UX_get_resources(top[i][1]))])

\* get_guidelines_by_domain
UX_get_guidelines_by_domain(store, domain) ==
    Returned(SelectSeq(store, LAMBDA g : lower(g.domain) = lower(domain)))

\* mutant: the user impact is not looked at
UX_quick_wins_any_impact(store) ==
    LET eligible == SelectSeq(store, LAMBDA g : g.complexity = "low")
    IN [i \in 1..Len(eligible) |->
           UXRecommendation(eligible[i], "high", "low",
                            UX_determine_user_impact(eligible[i]),
                            UX_get_resources(eligible[i]))]

\* the first loop of get_quick_wins: the low-complexity guidelines of high or
\* medium user impact, in store order, wrapped as recommendations
UX_quick_wins(store) ==
    LET eligible == SelectSeq(store, LAMBDA g :
                        /\ g.complexity = "low"
                        /\ UX_determine_user_impact(g) \in {"high", "medium"})
    IN [i \in 1..Len(eligible) |->
           UXRecommendation(eligible[i], "high", "low",
                            UX_determine_user_impact(eligible[i]),
                            UX_get_resources(eligible[i]))]

\* mutant: each group lists its quick wins last-first
UX_domain_groups_last_first(quick_wins) ==
    [d \in {quick_wins[i].guideline.domain : i \in 1..Len(quick_wins)} |->
        LET group == SelectSeq(quick_wins, LAMBDA rec : rec.guideline.domain = d)
        IN [i \in 1..Len(group) |-> group[Len(group) + 1 - i]]]

\* domain_groups: domain |-> its quick wins, in order
UX_domain_groups(quick_wins) ==
    [d \in {quick_wins[i].guideline.domain : i \in 1..Len(quick_wins)} |->
        SelectSeq(quick_wins, LAMBDA rec : rec.guideline.domain = d)]

\* list(domain_groups.keys()): the domains in order of first appearance
RECURSIVE KeysInOrder(_)
KeysInOrder(quick_wins) ==
    IF Len(quick_wins) = 0 THEN <<>>
    ELSE LET before == KeysInOrder(SubSeq(quick_wins, 1, Len(quick_wins) - 1))
             d == quick_wins[Len(quick_wins)].guideline.domain
         IN IF d \in Range(before) THEN before ELSE Append(before, d)

\* the orders random.shuffle can leave a list in
Shuffles(list) ==
    {p \in [1..Len(list) -> Range(list)] : \A x \in Range(list) : \E i \in 1..Len(list) : p[i] = x}

\* mutant: the loop runs while len(result) <= max_results
RECURSIVE UX_draw_one_more(_, _, _, _)
UX_draw_one_more(result, domains, domain_groups, max_results) ==
    IF Len(result) <= max_results /\ Len(domains) > 0
    THEN LET domain == Head(domains)
         IN IF Len(domain_groups[domain]) > 0
            THEN UX_draw_one_more(Append(result, Head(domain_groups[domain])),
                                  Tail(domains),
                                  [domain_groups EXCEPT ![domain] = Tail(@)], max_results)
            ELSE UX_draw_one_more(result, Tail(domains), domain_groups, max_results)
    ELSE result

\* the while loop of get_quick_wins
RECURSIVE UX_draw(_, _, _, _)
UX_draw(result, domains, domain_groups, max_results) ==
    IF Len(result) < max_results /\ Len(domains) > 0
    THEN LET domain == Head(domains)
         IN IF Len(domain_groups[domain]) > 0
            THEN UX_draw(Append(result, Head(domain_groups[domain])), Tail(domains),
                         [domain_groups EXCEPT ![domain] = Tail(@)], max_results)
            ELSE UX_draw(result, Tail(domains), domain_groups, max_results)
    ELSE result

\* UXGuideEngine.get_quick_wins, the shuffle having left the domains in `shuffled`
UX_get_quick_wins(store, max_results, shuffled) ==
    Returned(UX_draw(<<>>, shuffled, UX_domain_groups(UX_quick_wins(store)), max_results))

\* get_checklist: per domain value, the "[ ] " lines of its guidelines in
\* store order; a non-empty domains list keeps the domains it holds
UX_get_checklist(store, domains) ==
    LET kept == SelectSeq(store, LAMBDA guideline :
                    ~(domains # None /\ Len(domains[1]) > 0
                      /\ guideline.domain \notin Range(domains[1])))
    IN [domain \in {kept[i].domain : i \in 1..Len(kept)} |->
           LET own == SelectSeq(kept, LAMBDA guideline : guideline.domain = domain)
           IN [i \in 1..Len(own) |-> "[ ] " \o own[i].best_practice]]

\* get_anti_patterns: per domain value, one entry per guideline in store order
UX_get_anti_patterns(store) ==
    [domain \in {store[i].domain : i \in 1..Len(store)} |->
        LET own == SelectSeq(store, LAMBDA guideline : guideline.domain = domain)
        IN [i \in 1..Len(own) |-> [anti_pattern |-> own[i].anti_pattern,
                                    best_practice |-> own[i].best_practice,
                                    impact |-> own[i].impact]]]

---------------------------------------------------------------------------
(* tech_stack.py.                                                          *)

\* enum TechStack: member name |-> value
TechStack ==
    [NEXTJS |-> "Next.js", REMIX |-> "Remix", REACT |-> "React", VUE |-> "Vue",
     SVELTEKIT |-> "SvelteKit", ANGULAR |-> "Angular", ASTRO |-> "Astro",
     SOLIDJS |-> "SolidJS", QWIK |-> "Qwik", SWIFTUI |-> "SwiftUI",
     REACT_NATIVE |-> "React Native", FLUTTER |-> "Flutter"]

\* enum PracticeCategory: member name |-> value
PracticeCategory ==
    [ARCHITECTURE |-> "architecture", PERFORMANCE |-> "performance",
     STATE_MANAGEMENT |-> "state_management", STYLING |-> "styling",
     TESTING |-> "testing", DEPLOYMENT |-> "deployment", SECURITY |-> "security",
     ACCESSIBILITY |-> "accessibility"]

PracticeColumns == {"stack", "category", "topic", "practice", "anti_pattern",
                    "code_example", "benefits", "complexity"}

TechPatternColumns == {"stack", "name", "description", "use_case", "implementation",
                       "pros", "cons"}

PerformanceColumns == {"stack", "topic", "technique", "impact", "effort", "description",
                       "code_snippet"}

\* the try block of _load_practices for one row
Tech_parse_practice(row) ==
    IF /\ PracticeColumns \subseteq DOMAIN row
       /\ row["stack"] \in EnumValues(TechStack)
       /\ row["category"] \in EnumValues(PracticeCategory)
    THEN Some([stack |-> row["stack"], category |-> row["category"],
               topic |-> row["topic"], practice |-> row["practice"],
               anti_pattern |-> row["anti_pattern"],
               code_example |-> row["code_example"], benefits |-> row["benefits"],
               complexity |-> row["complexity"]])
    ELSE None

\* the try block of _load_patterns for one row
Tech_parse_pattern(row) ==
    IF TechPatternColumns \subseteq DOMAIN row /\ row["stack"] \in EnumValues(TechStack)
    THEN Some([stack |-> row["stack"], name |-> row["name"],
               description |-> row["description"], use_case |-> row["use_case"],
               implementation |-> row["implementation"],
               pros |-> split(row["pros"], ";"), cons |-> split(row["cons"], ";")])
    ELSE None

\* the try block of _load_performance for one row
Tech_parse_tip(row) ==
    IF PerformanceColumns \subseteq DOMAIN row /\ row["stack"] \in EnumValues(TechStack)
    THEN Some([stack |-> row["stack"], topic |-> row["topic"],
               technique |-> row["technique"], impact |-> row["impact"],
               effort |-> row["effort"], description |-> row["description"],
               code_snippet |-> row["code_snippet"]])
    ELSE None

\* _get_default_practices (code_example, which nothing reads, is abridged)
Tech_get_default_practices ==
    Returned(
    << [stack |-> TechStack.NEXTJS, category |-> PracticeCategory.ARCHITECTURE,
        topic |-> "Server Components",
        practice |-> "Use Server Components by default, Client Components only when needed",
        anti_pattern |-> "Mark all components with 'use client'",
        code_example |-> "// Server Component (default) ...",
        benefits |-> "Reduced bundle size, improved performance, simpler data fetching",
        complexity |-> "low"],
       [stack |-> TechStack.REACT, category |-> PracticeCategory.PERFORMANCE,
        topic |-> "Code Splitting",
        practice |-> "Use React.lazy and Suspense for route-based code splitting",
        anti_pattern |-> "Load entire application bundle upfront",
        code_example |-> "const Dashboard = React.lazy(() => import('./Dashboard')); ...",
        benefits |-> "Faster initial load, better user experience",
        complexity |-> "medium"],
       [stack |-> TechStack.VUE, category |-> PracticeCategory.STATE_MANAGEMENT,
        topic |-> "Composition API",
        practice |-> "Use Composition API with <script setup> syntax",
        anti_pattern |-> "Mix Options API and Composition API",
        code_example |-> "<script setup> ...",
        benefits |-> "Better type inference, code organization, tree-shaking",
        complexity |-> "low"] >>)

\* _get_default_patterns: the second TechPattern(...) call passes `pros[...]`
\* and `cons[...]` (subscripts of undefined names, positional after keyword
\* arguments) where `pros=[...]` and `cons=[...]` were meant.  The list cannot
\* be built: Python rejects the call when it compiles the file.
Tech_get_default_patterns == Raised("SyntaxError")

\* _get_default_performance (code_snippet, which nothing reads, is abridged)
Tech_get_default_performance ==
    Returned(
    << [stack |-> TechStack.NEXTJS, topic |-> "Image Optimization",
        technique |-> "Use next/image for all images", impact |-> "high",
        effort |-> "low",
        description |-> "Automatic optimization, lazy loading, and responsive images",
        code_snippet |-> "import Image from 'next/image' ..."],
       [stack |-> TechStack.REACT, topic |-> "Memoization",
        technique |-> "Use useMemo and useCallback sparingly", impact |-> "medium",
        effort |-> "medium",
        description |-> "Memoize expensive computations and callbacks",
        code_snippet |-> "const memoizedValue = useMemo(() => { ... }, [a, b])"] >>)

\* one store of _load_data: the rows of the file when it exists, else the defaults
Tech_load(file, parsed, defaults) ==
    IF file.exists THEN Returned(ParseRows(parsed)) ELSE defaults

\* _load_data: the three stores in turn; an exception ends the constructor
\* with the stores loaded so far
Tech_load_data(dir) ==
    LET p == Tech_load(dir.tech_practices,
                      [i \in 1..Len(dir.tech_practices.rows) |->
                          Tech_parse_practice(dir.tech_practices.rows[i])],
                      Tech_get_default_practices)
        t == Tech_load(dir.tech_patterns,
                      [i \in 1..Len(dir.tech_patterns.rows) |->
                          Tech_parse_pattern(dir.tech_patterns.rows[i])],
                      Tech_get_default_patterns)
        f == Tech_load(dir.tech_performance,
                      [i \in 1..Len(dir.tech_performance.rows) |->
                          Tech_parse_tip(dir.tech_performance.rows[i])],
                      Tech_get_default_performance)
    IN IF p.exc # "" THEN [exc |-> p.exc, practices |-> <<>>, patterns |-> <<>>,
                           performance_tips |-> <<>>]
       ELSE IF t.exc # "" THEN [exc |-> t.exc, practices |-> p.value, patterns |-> <<>>,
                                performance_tips |-> <<>>]
       ELSE IF f.exc # "" THEN [exc |-> f.exc, practices |-> p.value,
                                patterns |-> t.value, performance_tips |-> <<>>]
       ELSE [exc |-> "", practices |-> p.value, patterns |-> t.value,
             performance_tips |-> f.value]

\* TechStackEngine._determine_priority
Tech_determine_priority(practice) ==
    IF practice.category = PracticeCategory.SECURITY THEN "critical"
    ELSE IF practice.category = PracticeCategory.PERFORMANCE THEN "high"
    ELSE IF practice.complexity = "low" THEN "high"
    ELSE "medium"

\* _get_context: every category has an entry; the texts, which are not ASCII,
\* are stood for by "context:<category>"
Tech_get_context(practice) ==
    IF practice.category \in EnumValues(PracticeCategory)
    THEN "context:" \o practice.category
    ELSE "context:general"

Tech_get_alternatives(practice) == <<"See documentation for alternatives">>

\* TechStackEngine._get_resources: resources.get(practice.stack, [])
Tech_get_resources(practice) ==
    CASE practice.stack = TechStack.NEXTJS ->
            <<"Next.js Documentation: https://nextjs.org/docs",
              "Next.js Learn: https://nextjs.org/learn">>
      [] practice.stack = TechStack.REACT ->
            <<"React Documentation: https://react.dev",
              "React Patterns: https://reactpatterns.com">>
      [] practice.stack = TechStack.VUE ->
            <<"Vue Documentation: https://vuejs.org/guide/",
              "Vue Style Guide: https://vuejs.org/style-guide/">>
      [] practice.stack = TechStack.SVELTEKIT ->
            <<"SvelteKit Docs: https://kit.svelte.dev/docs",
              "Svelte Docs: https://svelte.dev/docs">>
      [] OTHER -> <<>>

\* the score search_practices computes for one practice
Tech_score(practice, query_lower) ==
    (IF In(query_lower, lower(practice.topic)) THEN 10 ELSE 0)
    + (IF In(query_lower, lower(practice.practice)) THEN 8 ELSE 0)
    + (IF In(query_lower, lower(practice.benefits)) THEN 5 ELSE 0)

\* the body of the loop of search_practices: whether the practice is appended
Tech_keeps(practice, stack, query, category) ==
    /\ lower(practice.stack) = lower(stack)
    /\ ~(Truthy(category) /\ lower(practice.category) # lower(category[1]))
    /\ ~(Truthy(query) /\ Tech_score(practice, lower(query[1])) = 0)

\* filtered_practices: the practices kept, in store order (the score is used
\* to drop a practice and for nothing else)
Tech_filtered_practices(store, stack, query, category) ==
    SelectSeq(store, LAMBDA practice : Tech_keeps(practice, stack, query, category))

StackRecommendation(practice) ==
    [practice |-> practice, priority |-> Tech_determine_priority(practice),
     context |-> Tech_get_context(practice),
     alternatives |-> Tech_get_alternatives(practice),
     resources |-> Tech_get_resources(practice)]

\* TechStackEngine.search_practices
Tech_search_practices(store, stack, query, category, max_results) ==
    LET top == Slice(Tech_filtered_practices(store, stack, query, category), max_results)
    IN Returned([i \in 1..Len(top) |-> StackRecommendation(top[i])])

\* TechStackEngine.get_patterns
Tech_get_patterns(store, stack) ==
    Returned(SelectSeq(store, LAMBDA p : lower(p.stack) = lower(stack)))

\* impact_order.get(impact.lower(), 3)
impact_order(impact) ==
    CASE lower(impact) = "high" -> 0
      [] lower(impact) = "medium" -> 1
      [] lower(impact) = "low" -> 2
      [] OTHER -> 3

\* the filter loop of get_performance_tips
Tech_tips_filtered(store, stack, impact, effort) ==
    SelectSeq(store, LAMBDA tip :
        /\ lower(tip.stack) = lower(stack)
        /\ ~(Truthy(impact) /\ lower(tip.impact) # lower(impact[1]))
        /\ ~(Truthy(effort) /\ lower(tip.effort) # lower(effort[1])))

\* TechStackEngine.get_performance_tips.  The sort key is
\* `lambda t: impact_order.get(tip.impact.lower(), 3)`: it reads `tip`, the
\* variable of the filter loop, which is left at the last tip of the store, and
\* not its own argument `t`.
Tech_get_performance_tips(store, stack, impact, effort) ==
    LET tips == Tech_tips_filtered(store, stack, impact, effort)
        keyed == [i \in 1..Len(tips) |-> <<tips[i], impact_order(store[Len(store)].impact)>>]
    IN Returned(Items(SortAsc(keyed)))

\* TechStackEngine.get_quick_wins
Tech_get_quick_wins(store, stack) ==
    Returned(SelectSeq(Tech_get_performance_tips(store, stack, None, None).value,
                       LAMBDA tip : lower(tip.impact) = "high" /\ lower(tip.effort) = "low"))

\* the table of get_migration_guide
migration_guides ==
    [k \in {"react->nextjs", "vue->nuxt"} |->
        IF k = "react->nextjs"
        THEN [routing |-> "Replace react-router with Next.js App Router file-based routing",
              data_fetching |-> "Move from useEffect to Server Components and async/await",
              styling |-> "Keep existing CSS solutions, they work with Next.js",
              deployment |-> "Deploy to Vercel for zero-config hosting"]
        ELSE [routing |-> "Replace vue-router with file-based routing in pages/",
              data_fetching |-> "Use useAsyncData and useFetch composables",
              styling |-> "Vue SFC styles work the same way",
              deployment |-> "Deploy to Vercel, Netlify, or Node.js server"]]

\* get_migration_guide: guides.get(key, {}); the empty dict is <<>>
Tech_get_migration_guide(from_stack, to_stack) ==
    Returned(RowGet(migration_guides, lower(from_stack) \o "->" \o lower(to_stack), <<>>))

---------------------------------------------------------------------------
(* codegen.py.                                                             *)

\* enum Framework: member name |-> value
Framework ==
    [NEXTJS |-> "nextjs", REACT |-> "react", VUE |-> "vue", SVELTE |-> "svelte",
     HTML |-> "html", TAILWIND |-> "tailwind"]

\* enum ComponentCategory: member name |-> value
ComponentCategory ==
    [BUTTON |-> "button", INPUT |-> "input", CARD |-> "card", MODAL |-> "modal",
     NAVIGATION |-> "navigation", FORM |-> "form", FEEDBACK |-> "feedback",
     LAYOUT |-> "layout", TYPOGRAPHY |-> "typography", DATA_DISPLAY |-> "data_display"]

\* the columns _load_snippets reads with row[...]; preview and description
\* are read with row.get
SnippetColumns == {"name", "category", "framework", "code", "dependencies", "props"}

\* item.split(":", 1): the text before the first colon, and the text after it
BeforeColon(item) == split(item, ":")[1]

AfterColon(item) == SubSeq(item, Len(BeforeColon(item)) + 2, Len(item))

\* _parse_props: the dict of the items that hold a colon; a later item
\* replaces an earlier one of the same key
parse_props(props_str) ==
    LET items == SelectSeq(split(props_str, ";"), LAMBDA item : In(":", item))
        keys == {strip(BeforeColon(items[i])) : i \in 1..Len(items)}
    IN [key \in keys |->
           LET last == CHOOSE i \in 1..Len(items) :
                           /\ strip(BeforeColon(items[i])) = key
                           /\ \A j \in (i + 1)..Len(items) : strip(BeforeColon(items[j])) # key
           IN strip(AfterColon(items[last]))]

\* the try block of _load_snippets for one row
parse_snippet(row) ==
    IF /\ SnippetColumns \subseteq DOMAIN row
       /\ row["category"] \in EnumValues(ComponentCategory)
       /\ row["framework"] \in EnumValues(Framework)
    THEN Some([name |-> row["name"], category |-> row["category"],
               framework |-> row["framework"], code |-> row["code"],
               dependencies |-> split(row["dependencies"], ";"),
               props |-> parse_props(row["props"]),
               preview |-> RowGet(row, "preview", ""),
               description |-> RowGet(row, "description", "")])
    ELSE None

\* _get_default_snippets (code is abridged to its first line)
get_default_snippets ==
    << [name |-> "Button", category |-> ComponentCategory.BUTTON,
        framework |-> Framework.REACT, code |-> "import React from 'react'",
        dependencies |-> <<"react">>,
        props |-> [children |-> "React.ReactNode", onClick |-> "() => void",
                   variant |-> "'primary' | 'secondary'", size |-> "'sm' | 'md' | 'lg'"],
        preview |-> "<Button variant=\"primary\" size=\"md\">Click me</Button>",
        description |-> "A versatile button component with multiple variants and sizes"],
       [name |-> "Card", category |-> ComponentCategory.CARD,
        framework |-> Framework.REACT, code |-> "import React from 'react'",
        dependencies |-> <<"react">>,
        props |-> [children |-> "React.ReactNode", title |-> "string",
                   footer |-> "React.ReactNode"],
        preview |-> "<Card title=\"Card Title\">Card content</Card>",
        description |-> "A card component with optional header and footer"],
       [name |-> "Input", category |-> ComponentCategory.INPUT,
        framework |-> Framework.REACT, code |-> "import React from 'react'",
        dependencies |-> <<"react">>,
        props |-> [type |-> "'text' | 'email' | 'password' | 'number'",
                   placeholder |-> "string", value |-> "string",
                   onChange |-> "(value: string) => void", label |-> "string",
                   error |-> "string"],
        preview |-> "<Input label=\"Email\" value=\"\" onChange={() => {}} />",
        description |-> "A text input with label and error handling"] >>

\* _load_snippets: the store after construction over the file
load_snippets(file) ==
    IF ~file.exists THEN get_default_snippets
    ELSE ParseRows([i \in 1..Len(file.rows) |-> parse_snippet(file.rows[i])])

\* the score search_components computes for one snippet
Snippet_score(snippet, query_lower) ==
    (IF In(query_lower, lower(snippet.name)) THEN 10 ELSE 0)
    + (IF In(query_lower, lower(snippet.description)) THEN 5 ELSE 0)
    + (IF In(query_lower, snippet.category) THEN 3 ELSE 0)

\* mutant: the framework filter is left out
Snippet_passes_category_only(snippet, framework, category) ==
    ~(Truthy(category) /\ snippet.category # lower(category[1]))

\* the framework and category filters of search_components
Snippet_passes(snippet, framework, category) ==
    /\ ~(Truthy(framework) /\ snippet.framework # lower(framework[1]))
    /\ ~(Truthy(category) /\ snippet.category # lower(category[1]))

\* results before the sort: the snippets that pass with score > 0, in store order
Snippet_scored(store, query_lower, framework, category) ==
    LET all == [i \in 1..Len(store) |-> <<store[i], Snippet_score(store[i], query_lower)>>]
    IN SelectSeq(all, LAMBDA x : Snippet_passes(x[1], framework, category) /\ x[2] > 0)

\* CodeGenerator.search_components
search_components(store, query, framework, category) ==
    Returned(Items(SortDesc(Snippet_scored(store, lower(query), framework, category))))

\* s.startswith(prefix)
startswith(s, prefix) == Len(s) >= Len(prefix) /\ SubSeq(s, 1, Len(prefix)) = prefix

\* sep.join(items)
RECURSIVE join(_, _)
join(sep, items) ==
    IF Len(items) = 0 THEN ""
    ELSE IF Len(items) = 1 THEN items[1]
    ELSE items[1] \o sep \o join(sep, Tail(items))

\* _apply_design_tokens: a comment naming the two colors is put before the
\* code for Tailwind, React and Next.js when the design system has colors
apply_design_tokens(code, design_system, framework) ==
    LET colors == design_system.colors
        primary == RowGet(colors, "primary", "#000000")
        secondary == RowGet(colors, "secondary", "#666666")
    IN IF DOMAIN colors = {} THEN code
       ELSE IF framework = Framework.TAILWIND
       THEN "/* Apply these colors in tailwind.config.js:\n * primary: '" \o primary
            \o "'\n * secondary: '" \o secondary \o "'\n */\n\n" \o code
       ELSE IF framework \in {Framework.REACT, Framework.NEXTJS}
       THEN "/* Use these CSS variables:\n * --color-primary: " \o primary
            \o "\n * --color-secondary: " \o secondary \o "\n */\n\n" \o code
       ELSE code

\* _extract_imports: the stripped lines that start with "import "
extract_imports(code, framework) ==
    LET lines == split(code, "\n")
        stripped == [i \in 1..Len(lines) |-> strip(lines[i])]
    IN SelectSeq(stripped, LAMBDA line : startswith(line, "import "))

\* re.findall(r'className="([^"]+)"', code): scanning from the left, each
\* opener followed by at least one character other than a quote and then a
\* quote gives the text between; the scan goes on after the closing quote
RECURSIVE findall_className(_)
findall_className(code) ==
    LET opener == "className=\""
        quote == "\""
        starts == {i \in 1..Len(code) :
                      /\ i + Len(opener) <= Len(code)
                      /\ SubSeq(code, i, i + Len(opener) - 1) = opener
                      /\ SubSeq(code, i + Len(opener), i + Len(opener)) # quote
                      /\ \E j \in (i + Len(opener) + 1)..Len(code) :
                             SubSeq(code, j, j) = quote}
    IN IF starts = {} THEN <<>>
       ELSE LET i == CHOOSE i \in starts : \A k \in starts : i <= k
                first == i + Len(opener)
                closings == {j \in (first + 1)..Len(code) : SubSeq(code, j, j) = quote}
                close == CHOOSE j \in closings : \A k \in closings : j <= k
            IN <<SubSeq(code, first, close - 1)>>
               \o findall_className(SubSeq(code, close + 1, Len(code)))

\* _extract_styles
extract_styles(code, framework) ==
    IF framework \in {Framework.REACT, Framework.NEXTJS, Framework.TAILWIND}
    THEN join("\n", findall_className(code))
    ELSE ""

\* CodeGenerator.generate_component: the first snippet of that name (letter
\* case aside) and framework, or None
generate_component(store, component_name, framework, design_system) ==
    LET hits == {i \in 1..Len(store) :
                    /\ lower(store[i].name) = lower(component_name)
                    /\ store[i].framework = framework}
    IN IF hits = {} THEN None
       ELSE LET snippet == store[CHOOSE i \in hits : \A k \in hits : i <= k]
                code == IF design_system # None
                        THEN apply_design_tokens(snippet.code, design_system[1], framework)
                        ELSE snippet.code
            IN Some([code |-> code,
                     imports |-> extract_imports(code, framework),
                     styles |-> extract_styles(code, framework),
                     dependencies |-> snippet.dependencies,
                     description |-> snippet.description,
                     usage_example |-> snippet.preview])

\* generate_component_snippet: get_code_generator() builds a generator over
\* the default data directory; a framework name outside the enum gives None
generate_component_snippet(file, component_name, framework, design_system) ==
    LET generator == load_snippets(file)
    IN IF lower(framework) \notin EnumValues(Framework) THEN None
       ELSE generate_component(generator, component_name, lower(framework), design_system)

---------------------------------------------------------------------------
(* Inputs.                                                                 *)

\* the max_results arguments tried
Caps == (-1)..MaxCap

\* rows of landing_patterns.csv: a pattern the query "minimal" matches by name
\* and one it matches by keyword only, a pattern whose keywords outscore a name
\* match on "hero", with a trailing comma and a blank cell, a row whose
\* category is not in the enum, a row without a name
LandingRows ==
    { [name |-> "Minimal Single CTA", category |-> "minimal", description |-> "One action",
       sections |-> "single_cta", cta_strategy |-> "single", best_for |-> "Newsletter,Signup",
       conversion_tips |-> "Remove distractions", complexity |-> "low",
       keywords |-> "minimal,simple"],
      [name |-> "Hero + Features", category |-> "classic", description |-> "Classic page",
       sections |-> "hero, features,cta", cta_strategy |-> "hero", best_for |-> "SaaS,Marketing",
       conversion_tips |-> "", complexity |-> "medium",
       keywords |-> "hero,landing,not minimal"],
      [name |-> "Video-First", category |-> "video", description |-> "Video page",
       sections |-> "video_hero,", cta_strategy |-> "video", best_for |-> "",
       conversion_tips |-> "Keep it short,", complexity |-> "high",
       keywords |-> "video hero,dark hero,split hero,hero image,hero cta"],
      [name |-> "Banner Wall", category |-> "banner", description |-> "Not a category",
       sections |-> "hero", cta_strategy |-> "hero", best_for |-> "Marketing",
       conversion_tips |-> "", complexity |-> "low", keywords |-> "hero"],
      [name |-> "Pricing Preview", category |-> "pricing", description |-> "Plans first",
       sections |-> "pricing_plans,faq", cta_strategy |-> "plans", best_for |-> "SaaS",
       conversion_tips |-> "Show the price", complexity |-> "medium",
       keywords |-> "pricing,plans"],
      [category |-> "minimal", description |-> "No name column",
       sections |-> "hero", cta_strategy |-> "hero", best_for |-> "SaaS",
       conversion_tips |-> "", complexity |-> "low", keywords |-> "minimal"] }

LandingFiles == {Absent} \cup {File(rows) : rows \in SeqsUpTo(LandingRows, MaxRows)}

LandingQueries == {"", "minimal", "Minimal", "hero", "saas", "zzz"}

\* names asked of get_pattern: in the store's spelling, in another case, unknown
PatternNameArgs == {"Minimal Single CTA", "hero + features", "Trust Badges"}

\* goals of recommend: a known word, in another case, inside a longer goal,
\* one word of each other branch, none
GoalArgs == {"signup", "Signup", "signup now", "buy", "demo", "pricing plans", "browse"}

ProductTypeArgs == {"SaaS", "Enterprise SaaS", "Shop"}

AudienceArgs == {"B2B", "B2C"}

\* rows of ux_guidelines.csv: two eligible quick wins of one domain, one of
\* another, a low-impact row, a high-complexity row, a domain not in the enum,
\* a row without the complexity column
UXRows ==
    { [domain |-> "A11y", topic |-> "Color", best_practice |-> "Use contrast",
       anti_pattern |-> "Gray text", example |-> "Dark on light",
       impact |-> "Better for ALL users", complexity |-> "low"],
      [domain |-> "Forms", topic |-> "Labels", best_practice |-> "Label every input",
       anti_pattern |-> "Placeholder as label", example |-> "Label above",
       impact |-> "Better for some users", complexity |-> "low"],
      [domain |-> "Forms", topic |-> "Errors", best_practice |-> "Inline error text",
       anti_pattern |-> "Color only", example |-> "Text under input",
       impact |-> "Essential feedback", complexity |-> "low"],
      [domain |-> "Performance", topic |-> "Images", best_practice |-> "Use WebP",
       anti_pattern |-> "Huge PNG", example |-> "WebP", impact |-> "Improved load",
       complexity |-> "high"],
      [domain |-> "Loading", topic |-> "Skeleton", best_practice |-> "Use skeleton",
       anti_pattern |-> "Spinner", example |-> "Skeleton", impact |-> "Faster",
       complexity |-> "low"],
      [domain |-> "Motion", topic |-> "Easing", best_practice |-> "Ease out",
       anti_pattern |-> "Linear", example |-> "Ease", impact |-> "Better feel",
       complexity |-> "low"],
      [domain |-> "Navigation", topic |-> "Grid", best_practice |-> "Use a grid",
       anti_pattern |-> "Free placement", example |-> "12 columns",
       impact |-> "Better scanning"] }

UXFiles == {Absent} \cup {File(rows) : rows \in SeqsUpTo(UXRows, MaxRows)}

ChecklistDomainsArgs == {None, Some(<<>>), Some(<<"Forms">>), Some(<<"forms", "A11y">>)}

UXQueries == {"", "color", "LABEL", "users better", "zzz"}

UXDomainArgs == {None, Some(""), Some("forms"), Some("A11Y"), Some("motion")}

\* rows of tech_practices.csv: two React practices the query "state" scores
\* low then high, a security and an accessibility practice, an unknown stack
PracticeRows ==
    { [stack |-> "React", category |-> "performance", topic |-> "Hooks",
       practice |-> "Keep state local", anti_pattern |-> "Global everything",
       code_example |-> "useState()", benefits |-> "Fewer renders",
       complexity |-> "medium"],
      [stack |-> "React", category |-> "state_management", topic |-> "State",
       practice |-> "Lift state up", anti_pattern |-> "Duplicate state",
       code_example |-> "props", benefits |-> "Shared state", complexity |-> "low"],
      [stack |-> "React", category |-> "security", topic |-> "Escaping",
       practice |-> "Escape output", anti_pattern |-> "Raw HTML",
       code_example |-> "{text}", benefits |-> "Safe", complexity |-> "high"],
      [stack |-> "Angular", category |-> "accessibility", topic |-> "Landmarks",
       practice |-> "Use landmarks", anti_pattern |-> "Div soup",
       code_example |-> "<main>", benefits |-> "Usable by all", complexity |-> "high"],
      [stack |-> "Cobol", category |-> "testing", topic |-> "Units",
       practice |-> "Test state", anti_pattern |-> "No tests",
       code_example |-> "", benefits |-> "Fewer bugs", complexity |-> "low"] }

\* rows of tech_patterns.csv: a trailing delimiter, an empty cell
TechPatternRows ==
    { [stack |-> "React", name |-> "Compound Components", description |-> "Shared state",
       use_case |-> "Tabs", implementation |-> "context",
       pros |-> "Flexible API;Less prop drilling", cons |-> "Requires context;"],
      [stack |-> "Next.js", name |-> "Parallel Routes", description |-> "Parallel sections",
       use_case |-> "Dashboard", implementation |-> "layout", pros |-> "",
       cons |-> "More complex routing"] }

\* rows of tech_performance.csv: React tips of low, then high, impact
PerformanceRows ==
    { [stack |-> "React", topic |-> "Keys", technique |-> "Stable keys",
       impact |-> "low", effort |-> "low", description |-> "Stable list keys",
       code_snippet |-> "key={id}"],
      [stack |-> "React", topic |-> "Memoization", technique |-> "useMemo",
       impact |-> "High", effort |-> "low", description |-> "Memoize",
       code_snippet |-> "useMemo()"],
      [stack |-> "Next.js", topic |-> "Images", technique |-> "next/image",
       impact |-> "medium", effort |-> "high", description |-> "Optimize images",
       code_snippet |-> "<Image/>"] }

\* a file without rows: absent, or a header line only
Rowless == {Absent, File(<<>>)}

RowFiles(pool) == {File(rows) : rows \in SeqsUpTo(pool, MaxRows) \ {<<>>}}

\* the data directories a TechStackEngine is built over: each of the three
\* files absent or empty, or one of them with rows and the other two empty
TechDirs ==
    [tech_practices : Rowless, tech_patterns : Rowless, tech_performance : Rowless]
    \cup [tech_practices : RowFiles(PracticeRows), tech_patterns : {File(<<>>)},
          tech_performance : {File(<<>>)}]
    \cup [tech_practices : {File(<<>>)}, tech_patterns : RowFiles(TechPatternRows),
          tech_performance : {File(<<>>)}]
    \cup [tech_practices : {File(<<>>)}, tech_patterns : {File(<<>>)},
          tech_performance : RowFiles(PerformanceRows)]

TechStackArgs == {"react", "NEXT.JS", "angular", "cobol"}

FromStackArgs == {"React", "vue", "cobol"}

ToStackArgs == {"NextJS", "Next.js", "nuxt"}

TechQueries == {None, Some(""), Some("State"), Some("zzz")}

TechCategoryArgs == {None, Some("Performance")}

TechLevelArgs == {None, Some("HIGH"), Some("low")}

\* rows of components.csv: the query "button" scores the second above the
\* first, a trailing delimiter, a framework not in the enum, a row without
\* the props column
SnippetRows ==
    { [name |-> "Card", category |-> "card", framework |-> "react",
       code |-> "import React from 'react'\n<div className=\"p-4\"/>",
       dependencies |-> "react;",
       props |-> "title: string;footer", preview |-> "<Card/>",
       description |-> "A card with a button footer"],
      [name |-> "Icon Button", category |-> "button", framework |-> "vue",
       code |-> "<template/>", dependencies |-> "", props |-> "",
       preview |-> "<IconButton/>", description |-> "An icon"],
      [name |-> "Button", category |-> "button", framework |-> "react",
       code |-> "import React from 'react'", dependencies |-> "react",
       props |-> "size: sm;size: md"],
      [name |-> "Toggle", category |-> "button", framework |-> "angular",
       code |-> "", dependencies |-> "", props |-> "", preview |-> "",
       description |-> "A toggle button"],
      [name |-> "Badge", category |-> "feedback", framework |-> "react",
       code |-> "<span/>", dependencies |-> "react"] }

SnippetFiles == {Absent} \cup {File(rows) : rows \in SeqsUpTo(SnippetRows, MaxRows)}

SnippetQueries == {"", "button", "CARD", "zzz"}

FrameworkArgs == {None, Some(""), Some("React"), Some("angular")}

ComponentCategoryArgs == {None, Some("BUTTON")}

ComponentNameArgs == {"button", "CARD", "Tooltip"}

\* the framework argument of generate_component: an enum member
FrameworkMembers == {Framework.REACT, Framework.VUE}

\* the framework argument of generate_component_snippet: a name
FrameworkNameArgs == {"React", "vue", "angular"}

DesignSystemArgs == {None, Some([colors |-> [primary |-> "#112233"]])}

---------------------------------------------------------------------------
(* The state machine.                                                      *)

NoCall == [op |-> "none"]

Init ==
    /\ engine = "none"
    /\ status = "unbuilt"
    /\ csv = <<>>
    /\ patterns = <<>>
    /\ guidelines = <<>>
    /\ practices = <<>>
    /\ tech_patterns = <<>>
    /\ performance_tips = <<>>
    /\ snippets = <<>>
    /\ call = NoCall
    /\ ret = Returned(<<>>)

\* LandingPatternGenerator(data_dir), over any landing_patterns.csv
LandingConstruct ==
    /\ engine = "none"
    /\ call = NoCall
    /\ engine' = "landing"
    /\ status' = "ready"
    /\ \E file \in LandingFiles :
           /\ csv' = [landing_patterns |-> file]
           /\ patterns' = Landing_load_patterns(file)
    /\ UNCHANGED <<guidelines, practices, tech_patterns, performance_tips, snippets,
                   call, ret>>

\* generator.search(query, max_results)
LandingSearch(query, max_results) ==
    /\ engine = "landing"
    /\ status = "ready"
    /\ call = NoCall
    /\ call' = [op |-> "landing.search", query |-> query, max_results |-> max_results]
    /\ ret' = Landing_search(patterns, query, max_results)
    /\ patterns' = Landing_patterns_after_search(patterns, query)
    /\ UNCHANGED <<engine, status, csv, guidelines, practices, tech_patterns,
                   performance_tips, snippets>>

\* generator.get_pattern(name)
LandingGetPattern(name) ==
    /\ engine = "landing"
    /\ status = "ready"
    /\ call = NoCall
    /\ call' = [op |-> "landing.get_pattern", name |-> name]
    /\ ret' = Returned(Landing_get_pattern(patterns, name))
    /\ UNCHANGED <<engine, status, csv, stores>>

\* generator.recommend(product_type, goal, audience)
LandingRecommend(product_type, goal, audience) ==
    /\ engine = "landing"
    /\ status = "ready"
    /\ call = NoCall
    /\ call' = [op |-> "landing.recommend", product_type |-> product_type,
                goal |-> goal, audience |-> audience]
    /\ ret' = Returned(Landing_recommend(patterns, product_type, goal, audience))
    /\ UNCHANGED <<engine, status, csv, stores>>

\* generator.generate_structure(pattern), for a pattern of the store
LandingGenerateStructure(pattern) ==
    /\ engine = "landing"
    /\ status = "ready"
    /\ call = NoCall
    /\ call' = [op |-> "landing.generate_structure", pattern |-> pattern]
    /\ ret' = Returned(Landing_generate_structure(pattern))
    /\ UNCHANGED <<engine, status, csv, stores>>

\* generator.list_patterns()
LandingListPatterns ==
    /\ engine = "landing"
    /\ status = "ready"
    /\ call = NoCall
    /\ call' = [op |-> "landing.list_patterns"]
    /\ ret' = Returned(Landing_list_patterns(patterns))
    /\ UNCHANGED <<engine, status, csv, stores>>

\* generator.list_categories(): list(set(...)) yields the categories in an
\* order the caller cannot rely on
LandingListCategories ==
    /\ engine = "landing"
    /\ status = "ready"
    /\ call = NoCall
    /\ LET categories == Landing_list_categories(patterns)
       IN \E order \in [1..Cardinality(categories) -> categories] :
             /\ Range(order) = categories
             /\ ret' = Returned(order)
    /\ call' = [op |-> "landing.list_categories"]
    /\ UNCHANGED <<engine, status, csv, stores>>

\* UXGuideEngine(data_dir)
UXConstruct ==
    /\ engine = "none"
    /\ call = NoCall
    /\ engine' = "ux"
    /\ status' = "ready"
    /\ \E file \in UXFiles :
           /\ csv' = [ux_guidelines |-> file]
           /\ guidelines' = UX_load_guidelines(file)
    /\ UNCHANGED <<patterns, practices, tech_patterns, performance_tips, snippets,
                   call, ret>>

\* engine.search(query, domain, max_results)
UXSearch(query, domain, max_results) ==
    /\ engine = "ux"
    /\ status = "ready"
    /\ call = NoCall
    /\ call' = [op |-> "ux.search", query |-> query, domain |-> domain,
                max_results |-> max_results]
    /\ ret' = UX_search(guidelines, query, domain, max_results)
    /\ UNCHANGED <<engine, status, csv, stores>>

\* engine.get_guidelines_by_domain(domain)
UXGetGuidelinesByDomain(domain) ==
    /\ engine = "ux"
    /\ status = "ready"
    /\ call = NoCall
    /\ call' = [op |-> "ux.get_guidelines_by_domain", domain |-> domain]
    /\ ret' = UX_get_guidelines_by_domain(guidelines, domain)
    /\ UNCHANGED <<engine, status, csv, stores>>

\* engine.get_quick_wins(max_results); random.shuffle leaves the domains in
\* any order
UXGetQuickWins(max_results) ==
    /\ engine = "ux"
    /\ status = "ready"
    /\ call = NoCall
    /\ \E shuffled \in Shuffles(KeysInOrder(UX_quick_wins(guidelines))) :
          /\ call' = [op |-> "ux.get_quick_wins", max_results |-> max_results,
                      shuffled |-> shuffled]
          /\ ret' = UX_get_quick_wins(guidelines, max_results, shuffled)
    /\ UNCHANGED <<engine, status, csv, stores>>

\* engine.get_checklist(domains)
UXGetChecklist(domains) ==
    /\ engine = "ux"
    /\ status = "ready"
    /\ call = NoCall
    /\ call' = [op |-> "ux.get_checklist", domains |-> domains]
    /\ ret' = Returned(UX_get_checklist(guidelines, domains))
    /\ UNCHANGED <<engine, status, csv, stores>>

\* engine.get_anti_patterns()
UXGetAntiPatterns ==
    /\ engine = "ux"
    /\ status = "ready"
    /\ call = NoCall
    /\ call' = [op |-> "ux.get_anti_patterns"]
    /\ ret' = Returned(UX_get_anti_patterns(guidelines))
    /\ UNCHANGED <<engine, status, csv, stores>>

\* TechStackEngine(data_dir): _load_data assigns the stores one after the
\* other; when a loader raises, the constructor raises and no engine exists
TechConstruct ==
    /\ engine = "none"
    /\ call = NoCall
    /\ engine' = "tech"
    /\ \E dir \in TechDirs :
           LET loaded == Tech_load_data(dir)
           IN /\ status' = IF loaded.exc = "" THEN "ready" ELSE "failed"
              /\ csv' = dir
              /\ practices' = loaded.practices
              /\ tech_patterns' = loaded.patterns
              /\ performance_tips' = loaded.performance_tips
              /\ ret' = IF loaded.exc = "" THEN Returned(<<>>) ELSE Raised(loaded.exc)
    /\ UNCHANGED <<patterns, guidelines, snippets, call>>

\* engine.search_practices(stack, query, category, max_results)
TechSearchPractices(stack, query, category, max_results) ==
    /\ engine = "tech"
    /\ status = "ready"
    /\ call = NoCall
    /\ call' = [op |-> "tech.search_practices", stack |-> stack, query |-> query,
                category |-> category, max_results |-> max_results]
    /\ ret' = Tech_search_practices(practices, stack, query, category, max_results)
    /\ UNCHANGED <<engine, status, csv, stores>>

\* engine.get_migration_guide(from_stack, to_stack)
TechGetMigrationGuide(from_stack, to_stack) ==
    /\ engine = "tech"
    /\ status = "ready"
    /\ call = NoCall
    /\ call' = [op |-> "tech.get_migration_guide", from_stack |-> from_stack,
                to_stack |-> to_stack]
    /\ ret' = Tech_get_migration_guide(from_stack, to_stack)
    /\ UNCHANGED <<engine, status, csv, stores>>

\* engine.get_patterns(stack)
TechGetPatterns(stack) ==
    /\ engine = "tech"
    /\ status = "ready"
    /\ call = NoCall
    /\ call' = [op |-> "tech.get_patterns", stack |-> stack]
    /\ ret' = Tech_get_patterns(tech_patterns, stack)
    /\ UNCHANGED <<engine, status, csv, stores>>

\* engine.get_performance_tips(stack, impact, effort)
TechGetPerformanceTips(stack, impact, effort) ==
    /\ engine = "tech"
    /\ status = "ready"
    /\ call = NoCall
    /\ call' = [op |-> "tech.get_performance_tips", stack |-> stack, impact |-> impact,
                effort |-> effort]
    /\ ret' = Tech_get_performance_tips(performance_tips, stack, impact, effort)
    /\ UNCHANGED <<engine, status, csv, stores>>

\* engine.get_quick_wins(stack)
TechGetQuickWins(stack) ==
    /\ engine = "tech"
    /\ status = "ready"
    /\ call = NoCall
    /\ call' = [op |-> "tech.get_quick_wins", stack |-> stack]
    /\ ret' = Tech_get_quick_wins(performance_tips, stack)
    /\ UNCHANGED <<engine, status, csv, stores>>

\* CodeGenerator(data_dir)
CodeGeneratorConstruct ==
    /\ engine = "none"
    /\ call = NoCall
    /\ engine' = "codegen"
    /\ status' = "ready"
    /\ \E file \in SnippetFiles :
           /\ csv' = [components |-> file]
           /\ snippets' = load_snippets(file)
    /\ UNCHANGED <<patterns, guidelines, practices, tech_patterns, performance_tips,
                   call, ret>>

\* generator.search_components(query, framework, category)
SearchComponents(query, framework, category) ==
    /\ engine = "codegen"
    /\ status = "ready"
    /\ call = NoCall
    /\ call' = [op |-> "codegen.search_components", query |-> query,
                framework |-> framework, category |-> category]
    /\ ret' = search_components(snippets, query, framework, category)
    /\ UNCHANGED <<engine, status, csv, stores>>

\* generator.generate_component(component_name, framework, design_system)
GenerateComponent(component_name, framework, design_system) ==
    /\ engine = "codegen"
    /\ status = "ready"
    /\ call = NoCall
    /\ call' = [op |-> "codegen.generate_component", component_name |-> component_name,
                framework |-> framework, design_system |-> design_system]
    /\ ret' = Returned(generate_component(snippets, component_name, framework,
                                          design_system))
    /\ UNCHANGED <<engine, status, csv, stores>>

\* generate_component_snippet(component_name, framework, design_system): a
\* module-level function; components is the file of the default data
\* directory, read by the generator the function builds for itself
GenerateComponentSnippet(component_name, framework, design_system) ==
    /\ engine = "none"
    /\ call = NoCall
    /\ \E components \in SnippetFiles :
           /\ call' = [op |-> "codegen.generate_component_snippet",
                       components |-> components, component_name |-> component_name,
                       framework |-> framework, design_system |-> design_system]
           /\ ret' = Returned(generate_component_snippet(components, component_name,
                                                         framework, design_system))
    /\ UNCHANGED <<engine, status, csv, stores>>

\* the caller is done with the outcome of its call and may issue the next one
Continue ==
    /\ call # NoCall
    /\ call' = NoCall
    /\ ret' = Returned(<<>>)
    /\ UNCHANGED <<engine, status, csv, stores>>

Next ==
    \/ LandingConstruct
    \/ \E query \in LandingQueries, max_results \in Caps : LandingSearch(query, max_results)
    \/ \E name \in PatternNameArgs : LandingGetPattern(name)
    \/ \E product_type \in ProductTypeArgs, goal \in GoalArgs, audience \in AudienceArgs :
          LandingRecommend(product_type, goal, audience)
    \/ \E i \in 1..Len(patterns) : LandingGenerateStructure(patterns[i])
    \/ LandingListPatterns
    \/ LandingListCategories
    \/ UXConstruct
    \/ \E query \in UXQueries, domain \in UXDomainArgs, max_results \in Caps :
          UXSearch(query, domain, max_results)
    \/ \E domain \in UXDomainArgs : domain # None /\ UXGetGuidelinesByDomain(domain[1])
    \/ \E max_results \in Caps : UXGetQuickWins(max_results)
    \/ \E domains \in ChecklistDomainsArgs : UXGetChecklist(domains)
    \/ UXGetAntiPatterns
    \/ TechConstruct
    \/ \E from_stack \in FromStackArgs, to_stack \in ToStackArgs :
          TechGetMigrationGuide(from_stack, to_stack)
    \/ \E stack \in TechStackArgs, query \in TechQueries, category \in TechCategoryArgs,
          max_results \in Caps :
          TechSearchPractices(stack, query, category, max_results)
    \/ \E stack \in TechStackArgs : TechGetPatterns(stack)
    \/ \E stack \in TechStackArgs, impact \in TechLevelArgs, effort \in TechLevelArgs :
          TechGetPerformanceTips(stack, impact, effort)
    \/ \E stack \in TechStackArgs : TechGetQuickWins(stack)
    \/ CodeGeneratorConstruct
    \/ \E query \in SnippetQueries, framework \in FrameworkArgs,
          category \in ComponentCategoryArgs :
          SearchComponents(query, framework, category)
    \/ \E component_name \in ComponentNameArgs, framework \in FrameworkMembers,
          design_system \in DesignSystemArgs :
          GenerateComponent(component_name, framework, design_system)
    \/ \E component_name \in ComponentNameArgs, framework \in FrameworkNameArgs,
          design_system \in DesignSystemArgs :
          GenerateComponentSnippet(component_name, framework, design_system)
    \/ Continue

Spec == Init /\ [][Next]_vars

---------------------------------------------------------------------------
(* Properties.                                                             *)

Levels == {"low", "medium", "high"}

NoEmptyItem(list) == \A i \in 1..Len(list) : list[i] # ""

Landing_scores(records, q) == [i \in 1..Len(records) |-> Landing_score(records[i], q)]

UX_scores(records, q) == [i \in 1..Len(records) |-> UX_score(records[i], q)]

Tech_scores(records, q) == [i \in 1..Len(records) |-> Tech_score(records[i], q)]

Snippet_scores(records, q) == [i \in 1..Len(records) |-> Snippet_score(records[i], q)]

Guidelines(recs) == [i \in 1..Len(recs) |-> recs[i].guideline]

Practices(recs) == [i \in 1..Len(recs) |-> recs[i].practice]

\* C1: whatever list LandingPatternGenerator.search, UXGuideEngine.search or
\* CodeGenerator.search_components returns, the scores of its records for the
\* query are in non-increasing order and none of them is 0.
C1_RankedNoZero ==
    /\ (call.op = "landing.search" /\ ret.exc = "") =>
          LET scores == Landing_scores(ret.value, lower(call.query))
          IN IsNonIncreasing(scores) /\ \A i \in 1..Len(scores) : scores[i] > 0
    /\ (call.op = "ux.search" /\ ret.exc = "") =>
          LET scores == UX_scores(Guidelines(ret.value), lower(call.query))
          IN IsNonIncreasing(scores) /\ \A i \in 1..Len(scores) : scores[i] > 0
    /\ (call.op = "codegen.search_components" /\ ret.exc = "") =>
          LET scores == Snippet_scores(ret.value, lower(call.query))
          IN IsNonIncreasing(scores) /\ \A i \in 1..Len(scores) : scores[i] > 0

\* C1 witness: a landing search returned two patterns of different scores,
\* the higher-scored one standing later in the store, and left out a pattern
\* of the store whose score is 0.
C1_Witness ==
    /\ call.op = "landing.search"
    /\ Len(patterns) = 2
    /\ Len(ret.value) = 2
    /\ ret.value[1] = patterns[2]
    /\ Landing_score(ret.value[1], lower(call.query))
           > Landing_score(ret.value[2], lower(call.query))

\* C2: search_practices with a non-empty query returns its recommendations in
\* non-increasing order of the practice's score, and the truncation keeps the
\* highest-scored practices: no practice left out scores above one returned.
C2_PracticesRankedByScore ==
    (/\ call.op = "tech.search_practices"
     /\ Truthy(call.query)
     /\ call.max_results >= 0
     /\ ret.exc = "") =>
        LET q == lower(call.query[1])
            all == Tech_filtered_practices(practices, call.stack, call.query, call.category)
            scores == Tech_scores(Practices(ret.value), q)
        IN /\ IsNonIncreasing(scores)
           /\ \A i \in 1..Len(all) : \A j \in 1..Len(ret.value) :
                 all[i] \notin Range(Practices(ret.value)) =>
                     Tech_score(all[i], q) <= scores[j]

\* the records of the store a categorical filter value selects
FieldIs(record, field, value) == lower(record[field]) = lower(value)

\* C3: when a categorical filter is supplied (a non-empty domain, stack,
\* category or framework), every returned record's field equals the value,
\* compared without regard to case.
C3_FilterExact ==
    /\ (call.op = "ux.search" /\ ret.exc = "" /\ Truthy(call.domain)) =>
          \A i \in 1..Len(ret.value) :
              FieldIs(ret.value[i].guideline, "domain", call.domain[1])
    /\ (call.op = "ux.get_guidelines_by_domain" /\ ret.exc = "") =>
          \A i \in 1..Len(ret.value) : FieldIs(ret.value[i], "domain", call.domain)
    /\ (call.op = "tech.search_practices" /\ ret.exc = "") =>
          \A i \in 1..Len(ret.value) :
              /\ FieldIs(ret.value[i].practice, "stack", call.stack)
              /\ Truthy(call.category) =>
                    FieldIs(ret.value[i].practice, "category", call.category[1])
    /\ (call.op \in {"tech.get_patterns", "tech.get_performance_tips"} /\ ret.exc = "") =>
          \A i \in 1..Len(ret.value) : FieldIs(ret.value[i], "stack", call.stack)
    /\ (call.op = "codegen.search_components" /\ ret.exc = "") =>
          \A i \in 1..Len(ret.value) :
              /\ Truthy(call.framework) =>
                    FieldIs(ret.value[i], "framework", call.framework[1])
              /\ Truthy(call.category) =>
                    FieldIs(ret.value[i], "category", call.category[1])

\* C3 witness: search_components with a framework given in another case
\* returned a snippet while the store holds a snippet of another framework
\* that the query also matches.
C3_Witness ==
    /\ call.op = "codegen.search_components"
    /\ Truthy(call.framework)
    /\ Len(ret.value) > 0
    /\ call.framework[1] # lower(call.framework[1])
    /\ \E i \in 1..Len(snippets) :
          /\ snippets[i].framework # lower(call.framework[1])
          /\ Snippet_score(snippets[i], lower(call.query)) > 0

\* C4: for max_results >= 0, LandingPatternGenerator.search,
\* UXGuideEngine.search and TechStackEngine.search_practices return at most
\* max_results entries, which are the first max_results entries of the list
\* the same call returns when the cap is the size of the store.
C4_CapIsPrefix ==
    /\ (call.op = "landing.search" /\ call.max_results >= 0 /\ ret.exc = "") =>
          LET full == Landing_search(patterns, call.query, Len(patterns))
          IN /\ Len(ret.value) <= call.max_results
             /\ full.exc = ""
             /\ ret.value = Slice(full.value, call.max_results)
    /\ (call.op = "ux.search" /\ call.max_results >= 0 /\ ret.exc = "") =>
          LET full == UX_search(guidelines, call.query, call.domain, Len(guidelines))
          IN /\ Len(ret.value) <= call.max_results
             /\ full.exc = ""
             /\ ret.value = Slice(full.value, call.max_results)
    /\ (call.op = "tech.search_practices" /\ call.max_results >= 0 /\ ret.exc = "") =>
          LET full == Tech_search_practices(practices, call.stack, call.query,
                                            call.category, Len(practices))
          IN /\ Len(ret.value) <= call.max_results
             /\ full.exc = ""
             /\ ret.value = Slice(full.value, call.max_results)

\* C4 witness: a landing search capped at 1 returned one pattern, the second
\* of the store, while two patterns match the query.
C4_Witness ==
    /\ call.op = "landing.search"
    /\ call.max_results = 1
    /\ Len(Landing_scored(patterns, lower(call.query))) = 2
    /\ ret.value = <<patterns[2]>>

\* C5: with the empty string as query and a cap that is at least the number
\* of records passing the filters, the search returns, and every record of the
\* store that passes the filters is in its result.
C5_EmptyQueryMatchesAll ==
    /\ (call.op = "landing.search" /\ call.query = ""
        /\ call.max_results >= Len(patterns)) =>
          /\ ret.exc = ""
          /\ \A i \in 1..Len(patterns) : patterns[i] \in Range(ret.value)
    /\ (call.op = "ux.search" /\ call.query = ""
        /\ call.max_results >= Len(guidelines)) =>
          /\ ret.exc = ""
          /\ \A i \in 1..Len(guidelines) :
                UX_passes(guidelines[i], call.domain) =>
                    guidelines[i] \in Range(Guidelines(ret.value))
    /\ (call.op = "tech.search_practices" /\ call.query = Some("")
        /\ call.max_results >= Len(practices)) =>
          /\ ret.exc = ""
          /\ \A i \in 1..Len(practices) :
                Tech_keeps(practices[i], call.stack, None, call.category) =>
                    practices[i] \in Range(Practices(ret.value))
    /\ (call.op = "codegen.search_components" /\ call.query = "") =>
          /\ ret.exc = ""
          /\ \A i \in 1..Len(snippets) :
                Snippet_passes(snippets[i], call.framework, call.category) =>
                    snippets[i] \in Range(ret.value)

\* the three engines whose defaults C6 is about, built with the file absent
LandingDefaulted == engine = "landing" /\ ~csv.landing_patterns.exists

UXDefaulted == engine = "ux" /\ ~csv.ux_guidelines.exists

CodeGeneratorDefaulted == engine = "codegen" /\ ~csv.components.exists

\* C6 as stated: built with the input file absent, LandingPatternGenerator,
\* UXGuideEngine and CodeGenerator hold a non-empty store whose every record
\* has its category, domain or framework in the enum, a complexity in {low,
\* medium, high}, and no empty string in a list-valued field.
C6_Original ==
    /\ LandingDefaulted =>
          /\ Len(patterns) > 0
          /\ \A i \in 1..Len(patterns) :
                /\ patterns[i].category \in LandingCategory
                /\ "complexity" \in DOMAIN patterns[i]
                /\ patterns[i].complexity \in Levels
                /\ NoEmptyItem(patterns[i].best_for)
                /\ NoEmptyItem(patterns[i].conversion_tips)
                /\ NoEmptyItem(patterns[i].keywords)
    /\ UXDefaulted =>
          /\ Len(guidelines) > 0
          /\ \A i \in 1..Len(guidelines) :
                /\ guidelines[i].domain \in EnumValues(UXDomain)
                /\ "complexity" \in DOMAIN guidelines[i]
                /\ guidelines[i].complexity \in Levels
    /\ CodeGeneratorDefaulted =>
          /\ Len(snippets) > 0
          /\ \A i \in 1..Len(snippets) :
                /\ snippets[i].category \in EnumValues(ComponentCategory)
                /\ snippets[i].framework \in EnumValues(Framework)
                /\ "complexity" \in DOMAIN snippets[i]
                /\ snippets[i].complexity \in Levels
                /\ NoEmptyItem(snippets[i].dependencies)

\* C6 as amended: built with the input file absent, the three engines hold a
\* non-empty store whose every record has its category, domain or framework in
\* the enum and no empty string in a list-valued field; every landing pattern
\* and every UX guideline has a complexity in {low, medium, high}, and a
\* component snippet has no complexity field.
C6_DefaultsWellFormed ==
    /\ LandingDefaulted =>
          /\ Len(patterns) > 0
          /\ \A i \in 1..Len(patterns) :
                /\ patterns[i].category \in LandingCategory
                /\ patterns[i].complexity \in Levels
                /\ patterns[i].cta_strategy.urgency \in Levels
                /\ NoEmptyItem(patterns[i].best_for)
                /\ NoEmptyItem(patterns[i].conversion_tips)
                /\ NoEmptyItem(patterns[i].keywords)
                /\ NoEmptyItem(patterns[i].cta_strategy.secondary_placements)
                /\ NoEmptyItem(patterns[i].cta_strategy.text_variations)
                /\ \A k \in 1..Len(patterns[i].sections) : patterns[i].sections[k].name # ""
    /\ UXDefaulted =>
          /\ Len(guidelines) > 0
          /\ \A i \in 1..Len(guidelines) :
                /\ guidelines[i].domain \in EnumValues(UXDomain)
                /\ guidelines[i].complexity \in Levels
    /\ CodeGeneratorDefaulted =>
          /\ Len(snippets) > 0
          /\ \A i \in 1..Len(snippets) :
                /\ snippets[i].category \in EnumValues(ComponentCategory)
                /\ snippets[i].framework \in EnumValues(Framework)
                /\ "complexity" \notin DOMAIN snippets[i]
                /\ NoEmptyItem(snippets[i].dependencies)

\* C6 witness: a CodeGenerator built without components.csv holds the
\* built-in snippets, each with at least one dependency.
C6_Witness ==
    /\ CodeGeneratorDefaulted
    /\ status = "ready"
    /\ snippets = get_default_snippets
    /\ \A i \in 1..Len(snippets) : Len(snippets[i].dependencies) > 0

\* C7: a TechStackEngine built without one of its three files is constructed
\* without error and the store of that file holds the built-in defaults,
\* whether or not the other two files exist.
C7_TechDefaultsIndependent ==
    engine = "tech" =>
        /\ ~csv.tech_practices.exists => (status = "ready" /\ Len(practices) > 0)
        /\ ~csv.tech_patterns.exists => (status = "ready" /\ Len(tech_patterns) > 0)
        /\ ~csv.tech_performance.exists => (status = "ready" /\ Len(performance_tips) > 0)

NameMatches(pattern, query_lower) == In(query_lower, lower(pattern.name))

\* C8: on the built-in landing store a search for "minimal" that may return
\* an entry returns "Minimal Single CTA" first; on every store a pattern whose
\* name contains the query stands before every returned pattern whose name
\* does not contain it and whose score is lower.
C8_NameMatchFirst ==
    (call.op = "landing.search" /\ ret.exc = "") =>
        LET q == lower(call.query)
            n == Len(ret.value)
        IN /\ (LandingDefaulted /\ q = "minimal" /\ call.max_results >= 1) =>
                 (n >= 1 /\ ret.value[1].name = "Minimal Single CTA")
           /\ \A i \in 1..n : \A j \in 1..n :
                 (/\ NameMatches(ret.value[i], q)
                  /\ ~NameMatches(ret.value[j], q)
                  /\ Landing_score(ret.value[j], q) < Landing_score(ret.value[i], q))
                 => i < j
           /\ \A k \in 1..Len(patterns) : \A j \in 1..n :
                 (/\ NameMatches(patterns[k], q)
                  /\ ~NameMatches(ret.value[j], q)
                  /\ Landing_score(ret.value[j], q) < Landing_score(patterns[k], q))
                 => patterns[k] \in Range(ret.value)

\* C8 witness: a search for "minimal" returned "Minimal Single CTA", the
\* second pattern of the store, before a pattern that matches by keyword only.
C8_Witness ==
    /\ call.op = "landing.search"
    /\ lower(call.query) = "minimal"
    /\ Len(ret.value) = 2
    /\ ret.value[1].name = "Minimal Single CTA"
    /\ ret.value[1] = patterns[2]
    /\ ~NameMatches(ret.value[2], "minimal")

\* the domains that have a quick win
EligibleDomains == {UX_quick_wins(guidelines)[i].guideline.domain :
                       i \in 1..Len(UX_quick_wins(guidelines))}

SharesDomain(recs) ==
    \E i \in 1..Len(recs) : \E j \in 1..Len(recs) :
        i # j /\ recs[i].guideline.domain = recs[j].guideline.domain

\* C9 as stated: for every max_results, get_quick_wins returns at most
\* max_results recommendations, two of them of one domain only when
\* max_results exceeds the number of domains that have a quick win.
C9_Original ==
    call.op = "ux.get_quick_wins" =>
        /\ ret.exc = ""
        /\ Len(ret.value) <= call.max_results
        /\ SharesDomain(ret.value) => call.max_results > Cardinality(EligibleDomains)

\* C9 as amended: the same for every max_results >= 0 (a negative max_results
\* returns the empty list, which is longer than max_results).
C9_QuickWinsCapped ==
    (call.op = "ux.get_quick_wins" /\ call.max_results >= 0) =>
        /\ ret.exc = ""
        /\ Len(ret.value) <= call.max_results
        /\ SharesDomain(ret.value) => call.max_results > Cardinality(EligibleDomains)

\* C9 witness: the store holds two quick wins of one domain, max_results is 2,
\* and one recommendation was returned.
C9_Witness ==
    /\ call.op = "ux.get_quick_wins"
    /\ call.max_results = 2
    /\ Len(UX_quick_wins(guidelines)) = 2
    /\ Cardinality(EligibleDomains) = 1
    /\ Len(ret.value) = 1

\* C10: every recommendation get_quick_wins returns wraps a guideline of the
\* store whose complexity is "low" and whose derived user impact, which the
\* recommendation carries, is "high" or "medium".
C10_QuickWinsEligible ==
    call.op = "ux.get_quick_wins" =>
        \A i \in 1..Len(ret.value) :
            /\ ret.value[i].guideline \in Range(guidelines)
            /\ ret.value[i].guideline.complexity = "low"
            /\ UX_determine_user_impact(ret.value[i].guideline) \in {"high", "medium"}
            /\ ret.value[i].user_impact = UX_determine_user_impact(ret.value[i].guideline)

\* C10 witness: a quick win was returned from a store that also holds a
\* low-complexity guideline of low user impact, or a guideline of another
\* complexity whose user impact is not low.
C10_Witness ==
    /\ call.op = "ux.get_quick_wins"
    /\ Len(ret.value) > 0
    /\ \E i \in 1..Len(guidelines) :
          \/ /\ guidelines[i].complexity = "low"
             /\ UX_determine_user_impact(guidelines[i]) = "low"
          \/ /\ guidelines[i].complexity # "low"
             /\ UX_determine_user_impact(guidelines[i]) # "low"

\* the patterns of the store that get_pattern(name) can return
Named(name) == SelectSeq(patterns, LAMBDA p : lower(p.name) = lower(name))

\* C11 as stated: recommend with goal "signup" and product_type "SaaS" returns
\* the pattern named "Minimal Single CTA" if the store contains it, and
\* otherwise the pattern named "Hero + Features".
C11_Original ==
    (call.op = "landing.recommend" /\ call.goal = "signup" /\ call.product_type = "SaaS") =>
        /\ ret.exc = ""
        /\ ret.value # None
        /\ ret.value[1].name = (IF \E i \in 1..Len(patterns) : patterns[i].name = "Minimal Single CTA"
                                THEN "Minimal Single CTA" ELSE "Hero + Features")

\* C11 as amended: it returns the first pattern of the store named "Minimal
\* Single CTA" (names compared without regard to case) if there is one,
\* otherwise the first pattern named "Hero + Features" if there is one, and
\* None when the store holds neither; the audience plays no part.
C11_SignupRecommendation ==
    (call.op = "landing.recommend" /\ call.goal = "signup" /\ call.product_type = "SaaS") =>
        /\ ret.exc = ""
        /\ ret.value = (IF Len(Named("Minimal Single CTA")) > 0
                        THEN Some(Named("Minimal Single CTA")[1])
                        ELSE IF Len(Named("Hero + Features")) > 0
                        THEN Some(Named("Hero + Features")[1])
                        ELSE None)

\* C11 witness: recommend("SaaS", "signup", ...) on a store without "Minimal
\* Single CTA" returned "Hero + Features", the second pattern of the store.
C11_Witness ==
    /\ call.op = "landing.recommend"
    /\ call.goal = "signup"
    /\ call.product_type = "SaaS"
    /\ Len(patterns) = 2
    /\ Len(Named("Minimal Single CTA")) = 0
    /\ ret.value = Some(patterns[2])
    /\ patterns[2].name = "Hero + Features"

\* the goal words of the decision table, by branch, and the product words
GoalWords ==
    [signup |-> {"signup", "register", "newsletter"},
     purchase |-> {"purchase", "buy", "order"},
     demo |-> {"demo", "trial"},
     pricing |-> {"pricing"}]

ProductWords == {"b2b", "enterprise", "saas"}

ContainsAny(text, words) == \E w \in words : In(w, text)

\* C12: a goal that contains a word of exactly one branch gets what the goal
\* equal to that word gets, and when the goal contains no goal word a
\* product_type that contains b2b, enterprise or saas gets what the
\* product_type equal to that word gets.
C12_RoutedByContainment ==
    call.op = "landing.recommend" =>
        LET g == lower(call.goal)
            t == lower(call.product_type)
        IN /\ \A b \in DOMAIN GoalWords : \A w \in GoalWords[b] :
                 (/\ In(w, g)
                  /\ \A other \in DOMAIN GoalWords \ {b} : ~ContainsAny(g, GoalWords[other]))
                 => ret.value = Landing_recommend(patterns, call.product_type, w, call.audience)
           /\ \A w \in ProductWords :
                 (/\ In(w, t)
                  /\ \A b \in DOMAIN GoalWords : ~ContainsAny(g, GoalWords[b]))
                 => ret.value = Landing_recommend(patterns, w, call.goal, call.audience)

\* C13: on a store that holds the default pattern "Hero + Features", recommend
\* returns a pattern in every branch of the table, and "Hero + Features" when
\* neither the goal nor the product type has a known word.
C13_AlwaysAFallback ==
    (call.op = "landing.recommend" /\ Len(Named("Hero + Features")) > 0) =>
        /\ ret.exc = ""
        /\ ret.value # None
        /\ (/\ \A b \in DOMAIN GoalWords : ~ContainsAny(lower(call.goal), GoalWords[b])
            /\ ~ContainsAny(lower(call.product_type), ProductWords))
           => ret.value = Some(Named("Hero + Features")[1])

\* C14: UXGuideEngine.search returns, and every recommendation it returns
\* carries the priority of the first rule that matches: domain A11y gives
\* "critical", else domain Performance "high", else complexity low "high",
\* else "medium".
C14_UXPriorityFirstMatch ==
    call.op = "ux.search" =>
        /\ ret.exc = ""
        /\ \A i \in 1..Len(ret.value) :
              LET g == ret.value[i].guideline
              IN ret.value[i].priority =
                    (IF g.domain = "A11y" THEN "critical"
                     ELSE IF g.domain = "Performance" THEN "high"
                     ELSE IF g.complexity = "low" THEN "high"
                     ELSE "medium")

\* C15: every recommendation search_practices returns has priority "critical"
\* when the practice's category is accessibility or security, else "high" when
\* it is performance, else "high" when the complexity is low, else "medium".
C15_TechPriorityByCategory ==
    (call.op = "tech.search_practices" /\ ret.exc = "") =>
        \A i \in 1..Len(ret.value) :
            LET p == ret.value[i].practice
            IN ret.value[i].priority =
                  (IF p.category \in {"accessibility", "security"} THEN "critical"
                   ELSE IF p.category = "performance" THEN "high"
                   ELSE IF p.complexity = "low" THEN "high"
                   ELSE "medium")

HighKeywords == {"all users", "everyone", "critical", "essential"}

MediumKeywords == {"some users", "improved", "better"}

\* the user impact the keyword rule gives an impact text
ImpactByKeywords(impact) ==
    IF ContainsAny(lower(impact), HighKeywords) THEN "high"
    ELSE IF ContainsAny(lower(impact), MediumKeywords) THEN "medium"
    ELSE "low"

\* C16: the user impact derived for every guideline of the store is "high" if
\* its lower-cased impact text has a high keyword, else "medium" if it has a
\* medium keyword, else "low"; get_quick_wins hands out exactly that value and
\* never a guideline whose value is "low".
C16_UserImpactByKeywords ==
    engine = "ux" =>
        /\ \A i \in 1..Len(guidelines) :
              /\ UX_determine_user_impact(guidelines[i]) = ImpactByKeywords(guidelines[i].impact)
              /\ UX_determine_user_impact(guidelines[i]) \in Levels
        /\ call.op = "ux.get_quick_wins" =>
              \A i \in 1..Len(ret.value) :
                  /\ ret.value[i].user_impact = ImpactByKeywords(ret.value[i].guideline.impact)
                  /\ ret.value[i].user_impact # "low"

\* C16 witness: get_quick_wins returned, with user impact "high", a guideline
\* whose impact text has a high and a medium keyword, from a store that also
\* holds a guideline without any keyword.
C16_Witness ==
    /\ call.op = "ux.get_quick_wins"
    /\ \E i \in 1..Len(ret.value) :
          /\ ContainsAny(lower(ret.value[i].guideline.impact), HighKeywords)
          /\ ContainsAny(lower(ret.value[i].guideline.impact), MediumKeywords)
          /\ ret.value[i].user_impact = "high"
    /\ \E i \in 1..Len(guidelines) : ImpactByKeywords(guidelines[i].impact) = "low"

\* the keys of the two resource tables
UXResourceDomains == {"A11y", "Performance", "Responsive", "Animation"}

TechResourceStacks == {"Next.js", "React", "Vue", "SvelteKit"}

\* C17: the resources of a recommendation are the table entry of its record's
\* domain (get_quick_wins) or stack (search_practices): not empty for a key of
\* the table, the empty list for every other domain or stack, and the lookup
\* does not raise.
C17_ResourcesByKey ==
    /\ call.op = "ux.get_quick_wins" =>
          /\ ret.exc = ""
          /\ \A i \in 1..Len(ret.value) :
                /\ ret.value[i].resources = UX_get_resources(ret.value[i].guideline)
                /\ ret.value[i].guideline.domain \in UXResourceDomains
                      <=> ret.value[i].resources # <<>>
    /\ call.op = "tech.search_practices" =>
          /\ ret.exc = ""
          /\ \A i \in 1..Len(ret.value) :
                /\ ret.value[i].resources = Tech_get_resources(ret.value[i].practice)
                /\ ret.value[i].practice.stack \in TechResourceStacks
                      <=> ret.value[i].resources # <<>>

\* C17 witness: get_quick_wins returned one recommendation with resources and
\* one, of a domain that is not in the table, with none.
C17_Witness ==
    /\ call.op = "ux.get_quick_wins"
    /\ \E i \in 1..Len(ret.value) :
          /\ ret.value[i].guideline.domain \notin UXResourceDomains
          /\ ret.value[i].resources = <<>>
    /\ \E i \in 1..Len(ret.value) : Len(ret.value[i].resources) = 2


\* the rows of a file that hold every required column and only enum values
\* the loader's enums know
WellFormedRows(rows, required, enums) ==
    SelectSeq(rows, LAMBDA row :
        /\ required \subseteq DOMAIN row
        /\ \A column \in DOMAIN enums :
               (IF column \in DOMAIN row THEN row[column] ELSE enums[column].default)
                   \in enums[column].values)

LandingWellFormedRows ==
    WellFormedRows(csv.landing_patterns.rows, {"name", "description"},
                   [category |-> [values |-> LandingCategory, default |-> "classic"]])

UXWellFormedRows ==
    WellFormedRows(csv.ux_guidelines.rows, UXColumns,
                   [domain |-> [values |-> EnumValues(UXDomain), default |-> ""]])

SnippetWellFormedRows ==
    WellFormedRows(csv.components.rows, SnippetColumns,
                   [category |-> [values |-> EnumValues(ComponentCategory), default |-> ""],
                    framework |-> [values |-> EnumValues(Framework), default |-> ""]])

TechStackLowerValues == {lower(value) : value \in EnumValues(TechStack)}

UXDomainLowerValues == {lower(value) : value \in EnumValues(UXDomain)}

C20_QueriesLeaveStores == [][engine' = engine => stores' = stores]_vars

\* a search has ranked the second stored pattern above the first, and the
\* store still holds the patterns in file order
C20_Witness ==
    /\ call.op = "landing.search"
    /\ csv.landing_patterns.exists
    /\ Len(patterns) = 2
    /\ Landing_score(patterns[2], lower(call.query))
           > Landing_score(patterns[1], lower(call.query))
    /\ ret.exc = ""
    /\ Len(ret.value) = 2
    /\ ret.value[1] = patterns[2]
    /\ patterns = Landing_load_patterns(csv.landing_patterns)


\* no element of the list is empty once trimmed
NoBlankItem(list) == \A i \in 1..Len(list) : strip(list[i]) # ""

\* C21: in a store loaded from a file, no list-valued field of a record
\* (landing best_for, keywords, conversion_tips and section names; tech
\* pattern pros and cons; component dependencies) holds an element that is
\* empty after trimming.
C21_ListFieldsHaveNoEmptyItem ==
    /\ (engine = "landing" /\ csv.landing_patterns.exists) =>
           \A i \in 1..Len(patterns) :
               /\ NoBlankItem(patterns[i].best_for)
               /\ NoBlankItem(patterns[i].keywords)
               /\ NoBlankItem(patterns[i].conversion_tips)
               /\ \A j \in 1..Len(patterns[i].sections) :
                      strip(patterns[i].sections[j].name) # ""
    /\ (engine = "tech" /\ csv.tech_patterns.exists) =>
           \A i \in 1..Len(tech_patterns) :
               NoBlankItem(tech_patterns[i].pros) /\ NoBlankItem(tech_patterns[i].cons)
    /\ (engine = "codegen" /\ csv.components.exists) =>
           \A i \in 1..Len(snippets) : NoBlankItem(snippets[i].dependencies)


\* the items whose score is the given one, in the order of the list
WithScore(items, scores, score) ==
    Items(SelectSeq([i \in 1..Len(items) |-> <<items[i], scores[i]>>],
                    LAMBDA x : x[2] = score))

\* within every score, the result lists the candidates of that score in the
\* candidates' order, from the first on
TiesInOrder(result, result_scores, candidates, candidate_scores) ==
    \A score \in Range(result_scores) :
        LET got == WithScore(result, result_scores, score)
            all == WithScore(candidates, candidate_scores, score)
        IN Len(got) <= Len(all) /\ got = SubSeq(all, 1, Len(got))

\* C22: in the list a search returns, the records of equal score are in
\* their store order, so that with the descending order of the scores the
\* list is determined by the store and the arguments.
C22_TiesKeepStoreOrder ==
    /\ (call.op = "landing.search" /\ ret.exc = "") =>
          TiesInOrder(ret.value, Landing_scores(ret.value, lower(call.query)),
                      patterns, Landing_scores(patterns, lower(call.query)))
    /\ (call.op = "ux.search" /\ ret.exc = "") =>
          LET candidates == SelectSeq(guidelines, LAMBDA g : UX_passes(g, call.domain))
          IN TiesInOrder(Guidelines(ret.value),
                         UX_scores(Guidelines(ret.value), lower(call.query)),
                         candidates, UX_scores(candidates, lower(call.query)))
    /\ (call.op = "codegen.search_components" /\ ret.exc = "") =>
          LET candidates == SelectSeq(snippets, LAMBDA s :
                                Snippet_passes(s, call.framework, call.category))
          IN TiesInOrder(ret.value, Snippet_scores(ret.value, lower(call.query)),
                         candidates, Snippet_scores(candidates, lower(call.query)))

\* a search returned two different patterns of equal score
C22_Witness ==
    /\ call.op = "landing.search"
    /\ ret.exc = ""
    /\ Len(ret.value) = 2
    /\ ret.value[1] # ret.value[2]
    /\ Landing_score(ret.value[1], lower(call.query))
           = Landing_score(ret.value[2], lower(call.query))
    /\ ret.value = patterns


\* s.upper()
RECURSIVE upper(_)
upper(s) ==
    IF Len(s) = 0 THEN ""
    ELSE UpperChar(SubSeq(s, 1, 1)) \o upper(SubSeq(s, 2, Len(s)))

\* some text of the list contains the lower-cased query, letter case aside
AnyContains(query_lower, texts) ==
    \E i \in 1..Len(texts) : In(query_lower, lower(texts[i]))

\* C23: a search gives the same outcome for the query in lower case and in
\* upper case, and a record none of whose scored fields contains the whole
\* lower-cased query scores 0 and is not in the result (landing: name,
\* category, keywords, best_for; UX: topic, best_practice, anti_pattern,
\* impact; a query of several words is matched as one string).
C23_WholeQueryCaseInsensitive ==
    /\ call.op = "landing.search" =>
          /\ ret = Landing_search(patterns, lower(call.query), call.max_results)
          /\ ret = Landing_search(patterns, upper(call.query), call.max_results)
          /\ \A i \in 1..Len(patterns) :
                 ~AnyContains(lower(call.query),
                              <<patterns[i].name, patterns[i].category>>
                                  \o patterns[i].keywords \o patterns[i].best_for)
                     => /\ Landing_score(patterns[i], lower(call.query)) = 0
                        /\ patterns[i] \notin Range(ret.value)
    /\ call.op = "ux.search" =>
          /\ ret = UX_search(guidelines, lower(call.query), call.domain, call.max_results)
          /\ ret = UX_search(guidelines, upper(call.query), call.domain, call.max_results)
          /\ \A i \in 1..Len(guidelines) :
                 ~AnyContains(lower(call.query),
                              <<guidelines[i].topic, guidelines[i].best_practice,
                                guidelines[i].anti_pattern, guidelines[i].impact>>)
                     => /\ UX_score(guidelines[i], lower(call.query)) = 0
                        /\ guidelines[i] \notin Range(Guidelines(ret.value))


\* C24: with a cap of at least the store size, what a filtered search returns
\* is what the search without filters returns for the same query, restricted
\* to the records that match the filters, in the same order; and a filter
\* given as None or as the empty string leaves the search as it is without it.
C24_FilterCommutesWithScoring ==
    /\ (/\ call.op = "ux.search"
        /\ call.max_results >= Len(guidelines)
        /\ ret.exc = "") =>
          LET unfiltered == UX_search(guidelines, call.query, None, call.max_results)
          IN /\ unfiltered.exc = ""
             /\ ret.value = SelectSeq(unfiltered.value, LAMBDA rec :
                                Truthy(call.domain)
                                    => lower(rec.guideline.domain) = lower(call.domain[1]))
    /\ (call.op = "ux.search" /\ ~Truthy(call.domain)) =>
          ret = UX_search(guidelines, call.query, None, call.max_results)
    /\ call.op = "codegen.search_components" =>
          LET unfiltered == search_components(snippets, call.query, None, None)
          IN /\ unfiltered.exc = ""
             /\ ret.exc = ""
             /\ ret.value = SelectSeq(unfiltered.value, LAMBDA s :
                                /\ Truthy(call.framework)
                                       => s.framework = lower(call.framework[1])
                                /\ Truthy(call.category)
                                       => s.category = lower(call.category[1]))
    /\ (call.op = "codegen.search_components" /\ ~Truthy(call.framework)) =>
          ret = search_components(snippets, call.query, None, call.category)
    /\ (call.op = "codegen.search_components" /\ ~Truthy(call.category)) =>
          ret = search_components(snippets, call.query, call.framework, None)


RECURSIVE PerElement(_, _, _)
PerElement(weight, query_lower, list) ==
    IF Len(list) = 0 THEN 0
    ELSE (IF In(query_lower, lower(list[1])) THEN weight ELSE 0)
         + PerElement(weight, query_lower, Tail(list))

\* C26: the score search gives a pattern for a query is 10 if the name
\* contains the query, plus 5 if the category value does, plus 3 for each
\* keyword and 2 for each best_for element that does: an integer >= 0, no
\* single weight above the name's; and the patterns search returns are those
\* of the store for which this sum is above 0.
C26_LandingScoreByWeights ==
    call.op = "landing.search" =>
        LET query_lower == lower(call.query)
            expected == [i \in 1..Len(patterns) |->
                            PerElement(10, query_lower, <<patterns[i].name>>)
                            + (IF In(query_lower, patterns[i].category) THEN 5 ELSE 0)
                            + PerElement(3, query_lower, patterns[i].keywords)
                            + PerElement(2, query_lower, patterns[i].best_for)]
        IN /\ \A i \in 1..Len(patterns) :
                  /\ Landing_score(patterns[i], query_lower) = expected[i]
                  /\ expected[i] \in Nat
                  /\ In(query_lower, lower(patterns[i].name)) => expected[i] >= 10
           /\ ret.exc = ""
           /\ call.max_results >= Len(patterns) =>
                  Range(ret.value) = {patterns[i] : i \in {k \in 1..Len(patterns) :
                                                              expected[k] > 0}}

\* a search for a query that several keywords of one stored pattern contain
C26_Witness ==
    /\ call.op = "landing.search"
    /\ \E i \in 1..Len(patterns) :
           /\ Matches(lower(call.query), patterns[i].keywords) >= 2
           /\ Landing_score(patterns[i], lower(call.query)) > 10
           /\ ~In(lower(call.query), lower(patterns[i].name))
           /\ patterns[i] \in Range(ret.value)


\* C27: UXGuideEngine.search returns a list of recommendations and raises
\* nothing, whatever the store, the query and the domain filter, also when
\* the query matches guidelines: it then returns one recommendation for each
\* of the first max_results guidelines that score above 0.
C27_UXSearchReturns ==
    call.op = "ux.search" =>
        /\ ret.exc = ""
        /\ call.max_results >= Len(guidelines) =>
               Len(ret.value) = Len(UX_scored(guidelines, lower(call.query), call.domain))


\* the guidelines of the store a quick win can wrap, in store order: low
\* complexity and an impact text with a high or a medium keyword
EligibleGuidelines ==
    SelectSeq(guidelines, LAMBDA g :
        g.complexity = "low" /\ ImpactByKeywords(g.impact) \in {"high", "medium"})

\* C28: whatever order the shuffle leaves the domains in, get_quick_wins with
\* max_results >= 0 returns as many recommendations as the smaller of
\* max_results and the number of domains that have an eligible guideline;
\* the domains of the recommendations are the first ones of the shuffled
\* order, and the recommendation of a domain wraps the first eligible
\* guideline of that domain in store order.
C28_QuickWinsOnePerDomain ==
    (call.op = "ux.get_quick_wins" /\ call.max_results >= 0) =>
        LET domains == {EligibleGuidelines[i].domain : i \in 1..Len(EligibleGuidelines)}
            expected == IF call.max_results < Cardinality(domains)
                        THEN call.max_results ELSE Cardinality(domains)
        IN /\ ret.exc = ""
           /\ Len(ret.value) = expected
           /\ Range(call.shuffled) = domains
           /\ \A i \in 1..Len(ret.value) :
                  /\ ret.value[i].guideline.domain = call.shuffled[i]
                  /\ LET own == SelectSeq(EligibleGuidelines, LAMBDA g :
                                    g.domain = call.shuffled[i])
                     IN ret.value[i].guideline = own[1]

\* the store holds two different eligible guidelines of one domain, more
\* than one recommendation was asked for, and the first of the two is the
\* one returned
C28_Witness ==
    /\ call.op = "ux.get_quick_wins"
    /\ call.max_results >= 2
    /\ Len(EligibleGuidelines) = 2
    /\ EligibleGuidelines[1].domain = EligibleGuidelines[2].domain
    /\ EligibleGuidelines[1] # EligibleGuidelines[2]
    /\ Len(ret.value) = 1
    /\ ret.value[1].guideline = EligibleGuidelines[1]


\* the place of an impact in the order high, medium, low, anything else
ImpactRank(impact) ==
    IF lower(impact) = "high" THEN 0
    ELSE IF lower(impact) = "medium" THEN 1
    ELSE IF lower(impact) = "low" THEN 2
    ELSE 3

\* C29: get_performance_tips returns the tips of the stack that pass the
\* impact and effort filters, every tip of impact high before every tip of
\* impact medium, and these before every tip of impact low; get_quick_wins
\* returns the tips of the stack of impact high and effort low.
C29_TipsOrderedByImpact ==
    /\ call.op = "tech.get_performance_tips" =>
          /\ ret.exc = ""
          /\ \A i \in 1..Len(ret.value) :
                 /\ lower(ret.value[i].stack) = lower(call.stack)
                 /\ Truthy(call.impact) =>
                        lower(ret.value[i].impact) = lower(call.impact[1])
                 /\ Truthy(call.effort) =>
                        lower(ret.value[i].effort) = lower(call.effort[1])
          /\ \A i, j \in 1..Len(ret.value) :
                 i < j => ImpactRank(ret.value[i].impact) <= ImpactRank(ret.value[j].impact)
    /\ call.op = "tech.get_quick_wins" =>
          /\ ret.exc = ""
          /\ Range(ret.value) =
                 {tip \in Range(performance_tips) :
                     /\ lower(tip.stack) = lower(call.stack)
                     /\ lower(tip.impact) = "high"
                     /\ lower(tip.effort) = "low"}


\* the records parsed from the rows of a file, in any order
ParsedRecords(parsed) == {parsed[i][1] : i \in {k \in 1..Len(parsed) : parsed[k] # None}}

\* C30: the built-in default records are the store exactly when the input
\* file is absent; over a file that exists every stored record is the parse
\* of one of its rows, there are as many of them as rows that parse, and the
\* store is empty when the file holds a header only or no row that parses.
C30_DefaultsIffFileAbsent ==
    /\ (engine = "landing" /\ call = NoCall) =>
           LET file == csv.landing_patterns
               parsed == [i \in 1..Len(file.rows) |-> parse_pattern(file.rows[i])]
           IN IF ~file.exists THEN patterns = Landing_get_default_patterns
              ELSE /\ Range(patterns) \subseteq ParsedRecords(parsed)
                   /\ Len(patterns) = Cardinality({i \in 1..Len(parsed) : parsed[i] # None})
                   /\ ParsedRecords(parsed) = {} => patterns = <<>>
    /\ (engine = "ux" /\ call = NoCall) =>
           LET file == csv.ux_guidelines
               parsed == [i \in 1..Len(file.rows) |-> UX_parse_guideline(file.rows[i])]
           IN IF ~file.exists THEN guidelines = UX_get_default_guidelines
              ELSE /\ Range(guidelines) \subseteq ParsedRecords(parsed)
                   /\ Len(guidelines) = Cardinality({i \in 1..Len(parsed) : parsed[i] # None})
                   /\ ParsedRecords(parsed) = {} => guidelines = <<>>
    /\ (engine = "codegen" /\ call = NoCall) =>
           LET file == csv.components
               parsed == [i \in 1..Len(file.rows) |-> parse_snippet(file.rows[i])]
           IN IF ~file.exists THEN snippets = get_default_snippets
              ELSE /\ Range(snippets) \subseteq ParsedRecords(parsed)
                   /\ Len(snippets) = Cardinality({i \in 1..Len(parsed) : parsed[i] # None})
                   /\ ParsedRecords(parsed) = {} => snippets = <<>>

\* C30 witness: a UXGuideEngine built over a ux_guidelines.csv whose only row
\* does not parse holds an empty store, not the built-in guidelines
C30_Witness ==
    /\ engine = "ux" /\ call = NoCall /\ status = "ready"
    /\ csv.ux_guidelines.exists
    /\ Len(csv.ux_guidelines.rows) = 1
    /\ UX_parse_guideline(csv.ux_guidelines.rows[1]) = None
    /\ guidelines = <<>>
    /\ UX_get_default_guidelines # <<>>

=============================================================================
